---- MODULE Spec2Model ----
\* The rebase engine of image-rebase (Rebaser.Rebase and the registry
\* operations it calls), as a state machine over the requests it issues
\* through its HTTP client.
EXTENDS Integers, Sequences, FiniteSets, TLC

\* ---------------------------------------------------------------------
\* Bounds of the model: layers of original and of the old base, layers of
\* the new base, history entries and diff_ids of the old base.
\* ---------------------------------------------------------------------
MaxLayers == 2
MaxNewLayers == 2
MaxHistory == 1
MaxDiffIDs == 1

VARIABLES pc, orig, oldBase, newBase, rebased, origData, oldData, newData,
          newBaseDigest, xfer, idx, reqs, result

\* The state of the authenticating transport: its per-host cache, the
\* credential config store on disk, the calls of RoundTrip made so far, and
\* the goroutines that are inside RoundTrip at the same time.
VARIABLES cache, store, tlog, gor

tvars == <<cache, store, tlog, gor>>

rvars == <<pc, orig, oldBase, newBase, rebased, origData, oldData, newData,
           newBaseDigest, xfer, idx, reqs, result>>

\* The string handed to a parser and the results of the steps applied
\* to it so far.
VARIABLES fnIn, fnOut

pvars == <<fnIn, fnOut>>

vars == <<rvars, tvars, pvars>>

\* ---------------------------------------------------------------------
\* Helpers on sequences.
\* ---------------------------------------------------------------------
SeqsUpTo(S, n) == UNION {[1..k -> S] : k \in 0..n}

\* s[n:] of Go, for 0 <= n <= len(s).
SliceFrom(s, n) == SubSeq(s, n + 1, Len(s))

\* ---------------------------------------------------------------------
\* ImageName.
\* ---------------------------------------------------------------------
\* A nil *ImageName.
NilName == [reg |-> "", repo |-> "", tag |-> "", dig |-> ""]

Name(reg, repo, tag, dig) == [reg |-> reg, repo |-> repo, tag |-> tag, dig |-> dig]

isDigest(i) == i.dig # ""

tagOrDigest(i) == IF i.tag # "" THEN i.tag ELSE i.dig

\* Rendering that writes every reference as a tag reference.
StringAlwaysTag(i) == <<i.reg, "/", i.repo, ":", i.tag>>

\* The rendered reference, as the sequence of its pieces:
\* reg "/" repo "@" dig, or reg "/" repo ":" tag.
String(i) ==
    IF isDigest(i) THEN <<i.reg, "/", i.repo, "@", i.dig>>
    ELSE <<i.reg, "/", i.repo, ":", i.tag>>

\* Pieces reference.Parse has no reading for.
Unparseable == {"", "totally incomprehensible"}

\* reference.Parse on a string given by its pieces: [domain "/"] path
\* [":" tag] ["@" digest]. ok is FALSE for what Parse answers with an error.
referenceParse(s) ==
    LET hasDomain == Len(s) >= 3 /\ s[2] = "/"
        r == IF hasDomain THEN SubSeq(s, 3, Len(s)) ELSE s
        shape == \/ Len(r) = 1
                 \/ Len(r) = 3 /\ r[2] \in {":", "@"}
                 \/ Len(r) = 5 /\ r[2] = ":" /\ r[4] = "@"
        good == /\ shape
                /\ \A i \in 1..Len(s) : i % 2 = 1 => s[i] \notin Unparseable
    IN [ok |-> good,
        domain |-> IF good /\ hasDomain THEN s[1] ELSE "",
        path |-> IF good THEN r[1] ELSE "",
        tag |-> IF good /\ Len(r) >= 3 /\ r[2] = ":" THEN r[3] ELSE "",
        digest |-> IF good /\ Len(r) >= 3 THEN (IF r[2] = "@" THEN r[3]
                                                 ELSE IF Len(r) = 5 THEN r[5] ELSE "")
                   ELSE ""]

\* "library/" + repo
WithLibrary(repo) ==
    CASE repo = "ubuntu" -> "library/ubuntu"
      [] repo = "img" -> "library/img"
      [] repo = "base" -> "library/base"
      [] repo = "app" -> "library/app"

\* Parsing that hands back an empty name, not nil, for a string that is no
\* reference.
FromStringNeverNil(s) ==
    LET named == referenceParse(s) IN
    IF s = <<>> THEN NilName
    ELSE IF ~named.ok THEN Name("index.docker.io", "", "latest", "")
    ELSE Name(IF named.domain = "" THEN "index.docker.io" ELSE named.domain,
              IF named.domain = "" THEN WithLibrary(named.path) ELSE named.path,
              IF named.tag # "" THEN named.tag ELSE IF named.digest # "" THEN "" ELSE "latest",
              IF named.tag # "" THEN "" ELSE named.digest)

\* FromString that keeps the digest of a reference carrying tag and digest.
FromStringKeepingBoth(s) ==
    LET named == referenceParse(s) IN
    IF s = <<>> \/ ~named.ok THEN NilName
    ELSE Name(IF named.domain = "" THEN "index.docker.io" ELSE named.domain,
              IF named.domain = "" THEN WithLibrary(named.path) ELSE named.path,
              IF named.tag # "" THEN named.tag
              ELSE IF named.digest # "" THEN "" ELSE "latest",
              named.digest)

\* FromString; NilName for what does not parse. strings.Contains("repo", "/")
\* is false whatever the repository, so "library/" is always prefixed.
FromString(s) ==
    LET named == referenceParse(s) IN
    IF s = <<>> \/ ~named.ok THEN NilName
    ELSE Name(IF named.domain = "" THEN "index.docker.io" ELSE named.domain,
              IF named.domain = "" THEN WithLibrary(named.path) ELSE named.path,
              IF named.tag # "" THEN named.tag
              ELSE IF named.digest # "" THEN "" ELSE "latest",
              IF named.tag # "" THEN "" ELSE named.digest)

\* ---------------------------------------------------------------------
\* The references a run is started with.
\* ---------------------------------------------------------------------
OrigName == Name("r1", "app", "v1", "")
OldBaseName == Name("r1", "base", "", "sha256:old")
RebasedChoices == {Name("r1", "app", "rebased", ""), Name("r1", "app", "", "sha256:reb")}
OldBaseChoices == {NilName, OldBaseName}
NewBaseChoices ==
    {NilName,
     Name("r1", "app", "stable", ""),
     Name("r1", "base", "latest", ""),
     Name("r2", "base", "latest", ""),
     Name("r1", "base", "", "sha256:new")}

\* ---------------------------------------------------------------------
\* Manifests and config documents.
\* ---------------------------------------------------------------------
\* HTTP status codes; 0 stands for a transport error (no response).
StatusOK == 200
StatusCreated == 201
StatusAccepted == 202
StatusNotFound == 404
TransportErr == 0

\* Layer digests are numbers: those of original and old base are drawn from
\* BaseDigests, the i-th layer of the new base has digest NewLayerDigest(i).
BaseDigests == {1, 2}
NewLayerDigest(i) == 10 + i

\* config.Config.Labels: a nil map, or a map whose "rebase" entry (when
\* present) is the label split at its spaces, each part a rendered reference.
NilLabels == [isNil |-> TRUE, hasRebase |-> FALSE, rebase |-> <<>>]
EmptyLabels == [isNil |-> FALSE, hasRebase |-> FALSE, rebase |-> <<>>]
RebaseLabel(parts) == [isNil |-> FALSE, hasRebase |-> TRUE, rebase |-> parts]

\* A config document as the registry serves it. "architecture" and
\* config.user stand for the fields the engine does not model; a history
\* entry carries a field ("comment") the typed view does not know, and
\* empty_layer marks an entry that stands for no layer.
RawHistory(who, n) ==
    [i \in 1..n |-> [created_by |-> <<who, i>>, comment |-> "c", empty_layer |-> FALSE]]

\* A history of h entries over n layers: the entries past the n-th are
\* metadata-only steps (empty_layer).
RawHistoryOver(who, n, h) ==
    [i \in 1..h |-> [created_by |-> <<who, i>>, comment |-> "c", empty_layer |-> (i > n)]]
RawDiffIDs(who, n) == [i \in 1..n |-> <<who, i>>]

Doc(hist, diffs, hasCfg, labels) ==
    [architecture |-> "amd64",
     history |-> hist,
     rootfs |-> [diff_ids |-> diffs, type |-> "layers"],
     hasConfig |-> hasCfg,
     config |-> [user |-> "root", labels |-> labels]]

NoDoc == Doc(<<>>, <<>>, FALSE, NilLabels)

\* sha256 of a serialized document: an injective image of the bytes.
Sha256(doc) == <<"sha256", doc>>

\* Byte length of a serialized document, counted in its entries.
ByteLen(doc) ==
    2 + Len(doc.history) + Len(doc.rootfs.diff_ids)
      + (IF doc.hasConfig THEN 1 + Len(doc.config.labels.rebase) ELSE 0)

\* type manifest
Manifest(layers, cfgDoc) ==
    [schemaVersion |-> 2,
     config |-> [size |-> ByteLen(cfgDoc), digest |-> Sha256(cfgDoc)],
     layers |-> layers]

NoManifest == Manifest(<<>>, NoDoc)

\* configFromJSON: the generic map of the whole document plus the typed
\* view; decoding a history entry keeps only the fields of the struct.
configFromJSON(b) ==
    [allData |-> b,
     History |-> [i \in 1..Len(b.history) |->
                    [created_by |-> b.history[i].created_by,
                     empty_layer |-> b.history[i].empty_layer]],
     DiffIDs |-> b.rootfs.diff_ids,
     Labels |-> IF b.hasConfig THEN b.config.labels ELSE NilLabels]

\* config.toJSON: overlays history, rootfs and config.labels on the generic
\* map and marshals it. The type assertion on allData["config"] faults when
\* the document has no "config" object.
toJSONFaults(c) == ~c.allData.hasConfig

toJSON(c) ==
    [c.allData EXCEPT
        !.history = c.History,
        !.rootfs = [diff_ids |-> c.DiffIDs, type |-> c.allData.rootfs.type],
        !.config = [@ EXCEPT !.labels = c.Labels]]

\* type imageData
ImageData(m, c) == [manifest |-> m, config |-> c]

NoData == ImageData(NoManifest, configFromJSON(NoDoc))

\* ---------------------------------------------------------------------
\* What the registry may hold for the three images.
\* ---------------------------------------------------------------------
GoodLabel == <<String(OldBaseName), String(Name("r1", "base", "latest", ""))>>

OrigLabelChoices == {NilLabels, RebaseLabel(GoodLabel)}

\* An image with one history entry and one diff_id per layer.
WellFormed(who, ls, hasCfg, lb) ==
    ImageData(Manifest(ls, Doc(RawHistory(who, Len(ls)), RawDiffIDs(who, Len(ls)), hasCfg, lb)),
              configFromJSON(Doc(RawHistory(who, Len(ls)), RawDiffIDs(who, Len(ls)), hasCfg, lb)))

\* original is served well formed, with or without a "config" object.
OrigImages ==
    { WellFormed("orig", ls, TRUE, lb) :
        ls \in SeqsUpTo(BaseDigests, MaxLayers), lb \in OrigLabelChoices }
    \cup { WellFormed("orig", <<1>>, FALSE, NilLabels) }

\* Values of the "rebase" label as strings.Split(lbl, " ") cuts them: no
\* label map, no "rebase" key, one part, an old base by tag, an old base
\* FromString rejects, a new base FromString rejects, a new base by digest,
\* and well-formed labels naming a new base in another repository, in
\* target's repository and in another registry.
LabelChoices ==
    {NilLabels, EmptyLabels,
     RebaseLabel(<<String(OldBaseName)>>),
     RebaseLabel(<<String(Name("r1", "base", "old", "")), String(Name("r1", "base", "latest", ""))>>),
     RebaseLabel(<<<<"totally incomprehensible">>, String(Name("r1", "base", "latest", ""))>>),
     RebaseLabel(<<String(OldBaseName), <<"totally incomprehensible">>>>),
     RebaseLabel(<<String(OldBaseName), String(Name("r1", "base", "", "sha256:new"))>>),
     RebaseLabel(GoodLabel),
     RebaseLabel(<<String(OldBaseName), String(Name("r1", "app", "stable", ""))>>),
     RebaseLabel(<<String(OldBaseName), String(Name("r2", "base", "latest", ""))>>)}

\* original served with one of these labels.
LabelledImages ==
    { WellFormed("orig", ls, TRUE, lb) :
        ls \in SeqsUpTo(BaseDigests, 1), lb \in LabelChoices }

\* The old base is served with history and diff_ids of any length, parallel
\* to its layers or not; history entries beyond its layers are empty_layer
\* entries.
OldImages ==
    { ImageData(Manifest(ls, Doc(RawHistoryOver("old", Len(ls), h), RawDiffIDs("old", d), TRUE, NilLabels)),
                configFromJSON(Doc(RawHistoryOver("old", Len(ls), h), RawDiffIDs("old", d), TRUE, NilLabels))) :
        ls \in SeqsUpTo(BaseDigests, MaxLayers), h \in 0..MaxHistory, d \in 0..MaxDiffIDs }

\* The new base is served well formed.
NewImages ==
    { WellFormed("new", [i \in 1..n |-> NewLayerDigest(i)], TRUE, NilLabels) :
        n \in 0..MaxNewLayers }

\* Values of the Docker-Content-Digest response header ("" when absent).
HeaderDigests == {"sha256:cur", ""}

\* ---------------------------------------------------------------------
\* Requests issued through r.Client, in the order they are issued. Every
\* entry records the request and the answer: the status, and for a GET of a
\* manifest or config blob answered 200 the document served.
\* ---------------------------------------------------------------------
BaseReq ==
    [op |-> "", method |-> "", reg |-> "", repo |-> "", ref |-> "", layer |-> 0,
     from |-> "", status |-> 0, digest |-> Sha256(NoDoc), body |-> NoDoc,
     payload |-> "", manifest |-> NoManifest]

\* GET /v2/<repo>/manifests/<tag-or-digest>
ManifestGet(name, m, st) ==
    [BaseReq EXCEPT !.op = "getManifest", !.method = "GET", !.reg = name.reg,
                    !.repo = name.repo, !.ref = tagOrDigest(name), !.status = st,
                    !.manifest = IF st = StatusOK THEN m ELSE NoManifest]

\* GET /v2/<repo>/blobs/<configDigest>
ConfigGet(reg, repo, dg, doc, st) ==
    [BaseReq EXCEPT !.op = "getConfig", !.method = "GET", !.reg = reg,
                    !.repo = repo, !.digest = dg, !.status = st,
                    !.body = IF st = StatusOK THEN doc ELSE NoDoc]

\* POST /v2/<repo>/blobs/uploads/?mount=<digest>&from=<repo>
MountPost(to, from, l, st) ==
    [BaseReq EXCEPT !.op = "mount", !.method = "POST", !.reg = to.reg,
                    !.repo = to.repo, !.layer = l, !.from = from.repo, !.status = st]

\* GET /v2/<repo>/blobs/<layerDigest>
getBlob(reg, repo, l, st) ==
    [BaseReq EXCEPT !.op = "getBlob", !.method = "GET", !.reg = reg,
                    !.repo = repo, !.layer = l, !.status = st]

\* POST /v2/<repo>/blobs/uploads/?digest=<digest> carrying a layer: payload
\* is what the blob GET handed over, the layer or the body of a failed GET.
putBlob(reg, repo, l, payload, st) ==
    [BaseReq EXCEPT !.op = "putBlob", !.method = "POST", !.reg = reg,
                    !.repo = repo, !.layer = l, !.payload = payload, !.status = st]

\* POST /v2/<repo>/blobs/uploads/?digest=<digest> carrying the config blob.
putConfigBlob(reg, repo, dg, blob, st) ==
    [BaseReq EXCEPT !.op = "putConfigBlob", !.method = "POST", !.reg = reg,
                    !.repo = repo, !.digest = dg, !.body = blob, !.status = st]

\* PUT /v2/<repo>/manifests/<tag>
putManifest(name, m, st) ==
    [BaseReq EXCEPT !.op = "putManifest", !.method = "PUT", !.reg = name.reg,
                    !.repo = name.repo, !.ref = name.tag, !.manifest = m, !.status = st]

\* The answers drawn for each kind of request: the statuses the operation
\* accepts and, as the unexpected one, another 2xx status. A transport
\* error is drawn where the code treats it differently from an unexpected
\* status.
FetchStatuses == {StatusOK, StatusCreated}
BlobGetStatuses == {StatusOK, StatusNotFound, TransportErr}
MountStatuses == {StatusCreated, StatusAccepted, StatusNotFound, TransportErr}
UploadStatuses == {StatusCreated, StatusOK}
PutManifestStatuses == {StatusOK, StatusCreated, StatusAccepted}

\* getImageData: the manifest GET, then (on 200) the config blob GET.
getImageDataReqs(name, img, ms, cs) ==
    IF ms = StatusOK
    THEN <<ManifestGet(name, img.manifest, ms),
           ConfigGet(name.reg, name.repo, img.manifest.config.digest,
                     img.config.allData, cs)>>
    ELSE <<ManifestGet(name, img.manifest, ms)>>

\* A fetch that takes any 2xx answer.
getImageDataOKAny2xx(ms, cs) == ms \in 200..299 /\ cs \in 200..299

getImageDataOK(ms, cs) == ms = StatusOK /\ cs = StatusOK

\* The digest getImageData returns beside the data.
getImageDataDigest(name, hdr) == IF isDigest(name) THEN name.dig ELSE hdr

\* getBasesFromLabel without the check that the new base is a tag.
getBasesFromLabelAnyNew(c) ==
    LET lbl == c.Labels IN
    IF ~lbl.hasRebase THEN [err |-> "errLabelMissing", old |-> NilName, new |-> NilName]
    ELSE IF Len(lbl.rebase) < 2 THEN [err |-> "errLabelMalformed", old |-> NilName, new |-> NilName]
    ELSE LET o == FromString(lbl.rebase[1])
             n == FromString(lbl.rebase[2]) IN
         IF o = NilName THEN [err |-> "errLabelOldMalformed", old |-> NilName, new |-> NilName]
         ELSE IF ~isDigest(o) THEN [err |-> "errLabelOldNotDigest", old |-> NilName, new |-> NilName]
         ELSE IF n = NilName THEN [err |-> "errLabelNewMalformed", old |-> NilName, new |-> NilName]
         ELSE [err |-> "", old |-> o, new |-> n]

\* getBasesFromLabel: err is "" on success.
getBasesFromLabel(c) ==
    LET lbl == c.Labels IN
    IF ~lbl.hasRebase THEN [err |-> "errLabelMissing", old |-> NilName, new |-> NilName]
    ELSE IF Len(lbl.rebase) < 2 THEN [err |-> "errLabelMalformed", old |-> NilName, new |-> NilName]
    ELSE LET o == FromString(lbl.rebase[1])
             n == FromString(lbl.rebase[2]) IN
         IF o = NilName THEN [err |-> "errLabelOldMalformed", old |-> NilName, new |-> NilName]
         ELSE IF ~isDigest(o) THEN [err |-> "errLabelOldNotDigest", old |-> NilName, new |-> NilName]
         ELSE IF n = NilName THEN [err |-> "errLabelNewMalformed", old |-> NilName, new |-> NilName]
         ELSE IF isDigest(n) THEN [err |-> "errLabelNewDigest", old |-> NilName, new |-> NilName]
         ELSE [err |-> "", old |-> o, new |-> n]

\* The basis loop of Rebase: walks oldBase's layers in order and indexes
\* original's layers with the same index. "pass", "errNotBasedOn", or
\* "panic" when the index runs past the end of original's layers.
BasisBad(origLayers, oldLayers) ==
    {i \in 1..Len(oldLayers) :
        IF i > Len(origLayers) THEN TRUE ELSE origLayers[i] # oldLayers[i]}

\* Basis check that compares the bottom layer only.
BasisCheckFirstOnly(origLayers, oldLayers) ==
    IF Len(oldLayers) = 0 THEN "pass"
    ELSE IF Len(origLayers) = 0 THEN "panic"
    ELSE IF origLayers[1] # oldLayers[1] THEN "errNotBasedOn"
    ELSE "pass"

BasisCheck(origLayers, oldLayers) ==
    LET bad == BasisBad(origLayers, oldLayers) IN
    IF bad = {} THEN "pass"
    ELSE LET m == CHOOSE i \in bad : \A j \in bad : i <= j IN
         IF m > Len(origLayers) THEN "panic" ELSE "errNotBasedOn"

\* Splice that forgets to drop the old base's entries.
SpliceKeepAll(new, origSeq, old) == new \o origSeq

\* Splice that puts the retained entries below the new base's.
SpliceTailFirst(new, origSeq, old) == SliceFrom(origSeq, Len(old)) \o new

\* append(new, orig[len(old):]...), for len(old) <= len(orig).
Splice(new, origSeq, old) == new \o SliceFrom(origSeq, Len(old))

\* orig[len(old):] faults when len(old) > len(orig).
SliceFaults(origSeq, old) == Len(old) > Len(origSeq)

\* Choice of the transfer that compares repositories instead of registries.
TransferModeByRepo(nb, rb) == IF nb.repo # rb.repo THEN "mirror" ELSE "mount"

\* if newBase.reg != rebased.reg { r.mirror(...) } else { r.mount(...) }
TransferMode(nb, rb) == IF nb.reg # rb.reg THEN "mirror" ELSE "mount"

\* The "rebase" label written for a tag-addressed new base.
NewRebaseLabel(nb, dg) ==
    RebaseLabel(<<String(Name(nb.reg, nb.repo, "", dg)), String(nb)>>)

\* ---------------------------------------------------------------------
\* The authenticating transport.
\* ---------------------------------------------------------------------
MaxCalls == 2
MaxValueLen == 1

StatusUnauthorized == 401
StatusServerError == 500

\* A map[string]... with no entry.
EmptyMap == [k \in {} |-> <<>>]

\* m[k] = v
MapPut(m, k, v) == [x \in DOMAIN m \cup {k} |-> IF x = k THEN v ELSE m[x]]

\* Strings the code cuts by index are sequences of one-character strings;
\* the other strings are sequences of their pieces.
\* strings.Index: the 0-based index of the first c in v, or -1.
Index(v, c) ==
    IF \E i \in 1..Len(v) : v[i] = c
    THEN (CHOOSE i \in 1..Len(v) : v[i] = c /\ \A j \in 1..(i - 1) : v[j] # c) - 1
    ELSE -1

\* v[a:b]
GoSlice(v, a, b) == SubSeq(v, a + 1, b)

\* v[a:b] is out of range.
GoSliceFaults(v, a, b) == ~(0 <= a /\ a <= b /\ b <= Len(v))

RealmKey == <<"r", "e", "a", "l", "m">>
ServiceKey == <<"s", "e", "r", "v", "i", "c", "e">>
ScopeKey == <<"s", "c", "o", "p", "e">>

NoChallenge == [realm |-> <<>>, service |-> <<>>, scope |-> <<>>, fault |-> FALSE]

\* The loop of parseWwwAuthenticate on what is left of the header.
RECURSIVE parseLoop(_, _)
parseLoop(v, acc) ==
    LET equal == Index(v, "=") IN
    IF equal = -1 THEN acc
    ELSE LET comma == Index(GoSlice(v, equal, Len(v)), ",")
             end == IF comma = -1 THEN Len(v) ELSE equal + comma
             key == GoSlice(v, 0, equal)
         IN IF GoSliceFaults(v, equal + 2, end - 1)
            THEN [acc EXCEPT !.fault = TRUE]
            ELSE LET val == GoSlice(v, equal + 2, end - 1)
                     acc2 == [acc EXCEPT
                                !.realm = IF key = RealmKey THEN val ELSE @,
                                !.service = IF key = ServiceKey THEN val ELSE @,
                                !.scope = IF key = ScopeKey THEN val ELSE @]
                 IN IF end = Len(v) THEN acc2
                    ELSE parseLoop(GoSlice(v, equal + comma + 1, Len(v)), acc2)

\* The parser run on the whole value, scheme included.
parseWwwAuthenticateWithScheme(v) == parseLoop(v, NoChallenge)

parseWwwAuthenticate(v) ==
    parseLoop(GoSlice(v, Index(v, " ") + 1, Len(v)), NoChallenge)

\* key="val"
Pair(key, val) == key \o <<"=", "\"">> \o val \o <<"\"">>

\* Www-Authenticate values a registry answers a 401 with: no header, a
\* challenge without realm, a bearer challenge, and a realm cut short.
BearerChallenge ==
    <<"B", "e", "a", "r", "e", "r", " ">> \o Pair(RealmKey, <<"R">>) \o <<",">>
        \o Pair(ServiceKey, <<"S">>) \o <<",">> \o Pair(ScopeKey, <<"C">>)

Challenges ==
    {<<>>,
     <<"B", "a", "s", "i", "c", " ">> \o Pair(ScopeKey, <<"C">>),
     BearerChallenge,
     <<"B", "e", "a", "r", "e", "r", " ">> \o RealmKey \o <<"=">>}

\* The seven key formats.
formats ==
    {"%s", "http://%s", "https://%s", "http://%s/v1/", "https://%s/v1/",
     "http://%s/v2/", "https://%s/v2/"}

\* What a format string holds before and after its %s.
BeforeVerb(f) ==
    CASE f = "%s" -> <<>>
      [] f \in {"http://%s", "http://%s/v1/", "http://%s/v2/"} -> <<"http://">>
      [] f \in {"https://%s", "https://%s/v1/", "https://%s/v2/"} -> <<"https://">>
      [] f = "ftp://%s" -> <<"ftp://">>

AfterVerb(f) ==
    CASE f \in {"http://%s/v1/", "https://%s/v1/"} -> <<"/v1/">>
      [] f \in {"http://%s/v2/", "https://%s/v2/"} -> <<"/v2/">>
      [] f \in {"%s", "http://%s", "https://%s", "ftp://%s"} -> <<>>

\* fmt.Sprintf(f, arg), as the pieces of the result.
Sprintf(f, arg) == BeforeVerb(f) \o arg \o AfterVerb(f)

\* The keys of m that some format renders r.URL.Host to.
MatchingKeys(m, host) ==
    {k \in DOMAIN m : \E f \in formats : Sprintf(f, <<host>>) = k}

\* Values of the Authorization header.
NoAuth == <<>>
Basic(auth) == <<"Basic ">> \o auth
Bearer(tok) == <<"Bearer ">> \o tok

\* invokeHelper: base64 of the username and secret the helper prints for
\* the server URL.
invokeHelper(helper, serverURL) == <<"base64", helper>> \o serverURL

\* Requests handed to RoundTrip: with and without an Authorization header.
TRequest(host, method, auth) == [host |-> host, method |-> method, auth |-> auth]

NoRequest == TRequest("", "", NoAuth)

Requests ==
    {TRequest("h1", "GET", NoAuth), TRequest("h1", "PUT", NoAuth),
     TRequest("h2", "GET", NoAuth),
     TRequest("h1", "GET", <<"Basic ", "caller">>),
     TRequest("h2", "PUT", <<"Bearer ", "caller">>)}

\* ~/.docker/config.json: missing, undecodable, or decoded to its
\* credHelpers and auths maps.
ConfigFile(state, helpers, auths) ==
    [state |-> state, credHelpers |-> helpers, auths |-> auths]

NoStore == ConfigFile("missing", EmptyMap, EmptyMap)

Stores ==
    {NoStore,
     ConfigFile("garbled", EmptyMap, EmptyMap),
     ConfigFile("ok", EmptyMap, EmptyMap),
     ConfigFile("ok", MapPut(EmptyMap, Sprintf("%s", <<"h1">>), "gcr"), EmptyMap),
     ConfigFile("ok", MapPut(MapPut(EmptyMap, Sprintf("%s", <<"h1">>), "gcr"),
                             Sprintf("https://%s", <<"h1">>), "ecr"),
                MapPut(EmptyMap, Sprintf("ftp://%s", <<"h2">>), <<"dXNlcjpwdw">>))}
    \cup { ConfigFile("ok", EmptyMap, MapPut(EmptyMap, Sprintf(f, <<"h1">>), <<"dXNlcjpwdw">>)) :
              f \in formats }
    \cup { ConfigFile("ok", MapPut(EmptyMap, Sprintf(f, <<"h1">>), "gcr"),
                      MapPut(EmptyMap, Sprintf("%s", <<"h1">>), <<"dXNlcjpwdw">>)) :
              f \in formats }

\* What a call does, in order: the read of the config file, a helper
\* process, a round trip of the inner transport, a token request.
Event(kind, req, url, helper, status) ==
    [kind |-> kind, req |-> req, url |-> url, helper |-> helper, status |-> status]

ReadConfig == Event("readConfig", NoRequest, <<>>, "", 0)
\* The helper process with its exit: 0, or 1 for a process error or an
\* output that does not decode.
Helper(helper, serverURL, hr) ==
    Event("helper", NoRequest, serverURL, helper, IF hr = "ok" THEN 0 ELSE 1)
Inner(req, st) == Event("inner", req, <<>>, "", st)
Token(url, st) == Event("token", NoRequest, url, "", st)

\* r.Header.Set("Authorization", v)
SetAuthorization(r, v) == [r EXCEPT !.auth = v]

\* The answers of the inner transport (TransportErr: no response), of the
\* helper process and of the token endpoint.
InnerStatuses == {StatusOK, StatusUnauthorized, TransportErr}
FirstStatuses == {StatusOK, StatusUnauthorized, StatusNotFound, TransportErr}
TokenStatuses == {StatusOK, StatusServerError, TransportErr}
HelperResults == {"ok", "processError", "undecodableOutput"}
TokenValue == <<"tok">>

\* What RoundTrip hands back: the events, the cache, the response status
\* (0 without a response) and the error ("" for nil), with the status of
\* the response an HTTPError carries and the Www-Authenticate value of a
\* 401 answer to the request without credentials.
Outcome(events, c, st, err) ==
    [events |-> events, cache |-> c, status |-> st, err |-> err,
     errResp |-> 0, challenge |-> <<>>]

\* return "", HTTPError{aresp}
HTTPErrorOutcome(events, c, st) == [Outcome(events, c, 0, "HTTPError") EXCEPT !.errResp = st]

\* v := resp.Header.Get("Www-Authenticate")
Challenged(o, v) == [o EXCEPT !.challenge = v]

\* return t.inner.RoundTrip(r)
ReturnInner(events, c, r) ==
    { Outcome(Append(events, Inner(r, st)), c, st,
              IF st = TransportErr THEN "errInner" ELSE "") : st \in InnerStatuses }

\* The pass-through test that never lets a request through.
HasAuthorizationNever(r) == FALSE

\* r.Header.Get("Authorization") != ""
HasAuthorization(r) == r.auth # NoAuth

\* A cache that drops what is written to it.
CachePutDropped(c, host, auth) == c

\* t.cache[r.URL.Host] = auth
CachePut(c, host, auth) == MapPut(c, host, auth)

\* The bearer path storing its token in the cache.
CacheAfterBearerStored(c, host, tok) == MapPut(c, host, tok)

\* The cache as the bearer path leaves it: the token is not stored.
CacheAfterBearer(c, host, tok) == c

\* The retry that takes up a second challenge with a second token.
BearerRetryAgain(events, c, r, tok) ==
    UNION { IF st = StatusUnauthorized
            THEN ReturnInner(events \o <<Inner(SetAuthorization(r, Bearer(tok)), st),
                                          Token(<<>>, StatusOK)>>,
                             c, SetAuthorization(r, Bearer(tok)))
            ELSE { Outcome(Append(events, Inner(SetAuthorization(r, Bearer(tok)), st)), c, st,
                           IF st = TransportErr THEN "errInner" ELSE "") } :
            st \in InnerStatuses }

\* r.Header.Set("Authorization", "Bearer "+tok); return t.inner.RoundTrip(r)
BearerRetry(events, c, r, tok) ==
    ReturnInner(events, CacheAfterBearer(c, r.host, tok), SetAuthorization(r, Bearer(tok)))

\* A refused token request after which the request is sent once more.
TokenRefusedRetrying(events, c, r, ts) == ReturnInner(events, c, r)

\* getToken answered with another status than 200.
TokenRefused(events, c, r, ts) == { HTTPErrorOutcome(events, c, ts) }

\* getToken and what follows it.
TokenExchange(events, c, r, p) ==
    LET url == p.realm \o <<"?service=">> \o p.service \o <<"&scope=">> \o p.scope IN
    UNION { IF ts = TransportErr
            THEN { Outcome(Append(events, Token(url, ts)), c, 0, "errToken") }
            ELSE IF ts = StatusOK
            THEN BearerRetry(Append(events, Token(url, ts)), c, r, TokenValue)
            ELSE TokenRefused(Append(events, Token(url, ts)), c, r, ts) :
            ts \in TokenStatuses }

\* The fallback: the request without credentials, and the challenge.
Unauthenticated(events, c, r) ==
    UNION { LET ev == Append(events, Inner(r, st)) IN
            IF st = TransportErr THEN { Outcome(ev, c, 0, "errInner") }
            ELSE IF st = StatusUnauthorized /\ v # <<>>
            THEN LET p == parseWwwAuthenticate(v) IN
                 IF p.fault THEN { Challenged(Outcome(ev, c, 0, "panic"), v) }
                 ELSE IF p.realm = <<>> THEN { Challenged(Outcome(ev, c, st, ""), v) }
                 ELSE { Challenged(o, v) : o \in TokenExchange(ev, c, r, p) }
            ELSE { Outcome(ev, c, st, "") } :
            st \in FirstStatuses, v \in Challenges }

\* The credHelpers loop going on without credentials when the helper fails.
ViaHelperFallingBack(events, c, r, keys) ==
    UNION { LET helper == store.credHelpers[k]
                url == Sprintf("https://%s", k)
                ev == Append(events, Helper(helper, url, hr)) IN
            IF hr # "ok" THEN Unauthenticated(ev, c, r)
            ELSE ReturnInner(ev, CachePut(c, r.host, invokeHelper(helper, url)),
                             SetAuthorization(r, Basic(invokeHelper(helper, url)))) :
            k \in keys, hr \in HelperResults }

\* The credHelpers loop for a matching key: Go ranges over the map in an
\* unspecified order, so any matching key may be the one met first.
ViaHelper(events, c, r, keys) ==
    UNION { LET helper == store.credHelpers[k]
                url == Sprintf("https://%s", k)
                ev == Append(events, Helper(helper, url, hr)) IN
            IF hr # "ok" THEN { Outcome(ev, c, 0, "errHelper") }
            ELSE ReturnInner(ev, CachePut(c, r.host, invokeHelper(helper, url)),
                             SetAuthorization(r, Basic(invokeHelper(helper, url)))) :
            k \in keys, hr \in HelperResults }

\* The auths loop for a matching key.
ViaAuths(events, c, r, keys) ==
    UNION { ReturnInner(events, CachePut(c, r.host, store.auths[k]),
                        SetAuthorization(r, Basic(store.auths[k]))) : k \in keys }

\* RoundTrip dropping a cached credential the registry answers 401 to, and
\* going on without it.
RoundTripInvalidating(c, r) ==
    IF HasAuthorization(r) THEN ReturnInner(<<>>, c, r)
    ELSE IF r.host \in DOMAIN c
    THEN UNION { IF st = StatusUnauthorized
                 THEN Unauthenticated(<<Inner(SetAuthorization(r, Basic(c[r.host])), st)>>,
                                      [h \in DOMAIN c \ {r.host} |-> c[h]], r)
                 ELSE { Outcome(<<Inner(SetAuthorization(r, Basic(c[r.host])), st)>>, c, st,
                                IF st = TransportErr THEN "errInner" ELSE "") } :
                 st \in InnerStatuses }
    ELSE IF store.state = "missing" THEN { Outcome(<<ReadConfig>>, c, 0, "errOpenConfig") }
    ELSE IF store.state = "garbled" THEN { Outcome(<<ReadConfig>>, c, 0, "errDecodeConfig") }
    ELSE IF MatchingKeys(store.credHelpers, r.host) # {}
    THEN ViaHelper(<<ReadConfig>>, c, r, MatchingKeys(store.credHelpers, r.host))
    ELSE IF MatchingKeys(store.auths, r.host) # {}
    THEN ViaAuths(<<ReadConfig>>, c, r, MatchingKeys(store.auths, r.host))
    ELSE Unauthenticated(<<ReadConfig>>, c, r)

\* RoundTrip taking a config file it cannot read for an empty one.
RoundTripWithoutStore(c, r) ==
    IF HasAuthorization(r) THEN ReturnInner(<<>>, c, r)
    ELSE IF r.host \in DOMAIN c
    THEN ReturnInner(<<>>, c, SetAuthorization(r, Basic(c[r.host])))
    ELSE IF store.state # "ok" THEN Unauthenticated(<<ReadConfig>>, c, r)
    ELSE IF MatchingKeys(store.credHelpers, r.host) # {}
    THEN ViaHelper(<<ReadConfig>>, c, r, MatchingKeys(store.credHelpers, r.host))
    ELSE IF MatchingKeys(store.auths, r.host) # {}
    THEN ViaAuths(<<ReadConfig>>, c, r, MatchingKeys(store.auths, r.host))
    ELSE Unauthenticated(<<ReadConfig>>, c, r)

\* RoundTrip looking into auths before credHelpers.
RoundTripAuthsFirst(c, r) ==
    IF HasAuthorization(r) THEN ReturnInner(<<>>, c, r)
    ELSE IF r.host \in DOMAIN c
    THEN ReturnInner(<<>>, c, SetAuthorization(r, Basic(c[r.host])))
    ELSE IF store.state = "missing" THEN { Outcome(<<ReadConfig>>, c, 0, "errOpenConfig") }
    ELSE IF store.state = "garbled" THEN { Outcome(<<ReadConfig>>, c, 0, "errDecodeConfig") }
    ELSE IF MatchingKeys(store.auths, r.host) # {}
    THEN ViaAuths(<<ReadConfig>>, c, r, MatchingKeys(store.auths, r.host))
    ELSE IF MatchingKeys(store.credHelpers, r.host) # {}
    THEN ViaHelper(<<ReadConfig>>, c, r, MatchingKeys(store.credHelpers, r.host))
    ELSE Unauthenticated(<<ReadConfig>>, c, r)

\* transport.RoundTrip: every outcome the environment allows.
RoundTrip(c, r) ==
    IF HasAuthorization(r) THEN ReturnInner(<<>>, c, r)
    ELSE IF r.host \in DOMAIN c
    THEN ReturnInner(<<>>, c, SetAuthorization(r, Basic(c[r.host])))
    ELSE IF store.state = "missing" THEN { Outcome(<<ReadConfig>>, c, 0, "errOpenConfig") }
    ELSE IF store.state = "garbled" THEN { Outcome(<<ReadConfig>>, c, 0, "errDecodeConfig") }
    ELSE IF MatchingKeys(store.credHelpers, r.host) # {}
    THEN ViaHelper(<<ReadConfig>>, c, r, MatchingKeys(store.credHelpers, r.host))
    ELSE IF MatchingKeys(store.auths, r.host) # {}
    THEN ViaAuths(<<ReadConfig>>, c, r, MatchingKeys(store.auths, r.host))
    ELSE Unauthenticated(<<ReadConfig>>, c, r)

\* No transport in use.
TransportIdle == cache = EmptyMap /\ store = NoStore /\ tlog = <<>> /\ gor = <<>>

\* No parser under examination.
ParserIdle == fnIn = <<>> /\ fnOut = <<>>

\* ---------------------------------------------------------------------
\* Rebaser.Rebase, one action per step of the function.
\* ---------------------------------------------------------------------
Init ==
    /\ pc = "start"
    /\ TransportIdle
    /\ ParserIdle
    /\ orig = OrigName
    /\ oldBase \in OldBaseChoices
    /\ newBase \in NewBaseChoices
    /\ rebased \in RebasedChoices
    /\ origData = NoData
    /\ oldData = NoData
    /\ newData = NoData
    /\ newBaseDigest = ""
    /\ xfer = ""
    /\ idx = 0
    /\ reqs = <<>>
    /\ result = "running"

\* return <error>: the function is left.
Return(r) == pc' = "done" /\ result' = r

\* Rebase without the check of rebased.
CheckRebasedSkipped ==
    /\ pc = "start"
    /\ UNCHANGED <<tvars, pvars>>
    /\ pc' = "getOrig"
    /\ UNCHANGED <<orig, oldBase, newBase, rebased, origData, oldData, newData,
                   newBaseDigest, xfer, idx, reqs, result>>

\* if rebased.isDigest() { return error }
CheckRebased ==
    /\ pc = "start"
    /\ UNCHANGED <<tvars, pvars>>
    /\ IF isDigest(rebased)
       THEN Return("errRebasedDigest")
       ELSE pc' = "getOrig" /\ result' = result
    /\ UNCHANGED <<orig, oldBase, newBase, rebased, origData, oldData, newData,
                   newBaseDigest, xfer, idx, reqs>>

\* origData, _, err := r.getImageData(orig)
GetOrigFrom(images) ==
    /\ pc = "getOrig"
    /\ UNCHANGED <<tvars, pvars>>
    /\ \E img \in images, ms \in FetchStatuses, cs \in FetchStatuses :
        /\ reqs' = reqs \o getImageDataReqs(orig, img, ms, cs)
        /\ IF getImageDataOK(ms, cs)
           THEN origData' = img /\ pc' = "checkBases" /\ result' = result
           ELSE origData' = origData /\ Return("errGetOriginal")
    /\ UNCHANGED <<orig, oldBase, newBase, rebased, oldData, newData,
                   newBaseDigest, xfer, idx>>

GetOrig == GetOrigFrom(OrigImages)

\* The same fetch from a registry whose original carries any of the labels
\* of LabelChoices.
GetOrigLabelled == GetOrigFrom(LabelledImages)

\* The both-or-neither check and the derivation of the bases from the label.
CheckBases ==
    /\ pc = "checkBases"
    /\ UNCHANGED <<tvars, pvars>>
    /\ IF (oldBase = NilName) # (newBase = NilName)
       THEN Return("errBothOrNeither") /\ UNCHANGED <<oldBase, newBase>>
       ELSE IF oldBase = NilName /\ newBase = NilName
       THEN LET b == getBasesFromLabel(origData.config) IN
            IF b.err # ""
            THEN Return(b.err) /\ UNCHANGED <<oldBase, newBase>>
            ELSE oldBase' = b.old /\ newBase' = b.new /\ pc' = "getOld" /\ result' = result
       ELSE pc' = "getOld" /\ result' = result /\ UNCHANGED <<oldBase, newBase>>
    /\ UNCHANGED <<orig, rebased, origData, oldData, newData, newBaseDigest,
                   xfer, idx, reqs>>

\* oldData, _, err := r.getImageData(oldBase)
GetOld ==
    /\ pc = "getOld"
    /\ UNCHANGED <<tvars, pvars>>
    /\ \E img \in OldImages, ms \in FetchStatuses, cs \in FetchStatuses :
        /\ reqs' = reqs \o getImageDataReqs(oldBase, img, ms, cs)
        /\ IF getImageDataOK(ms, cs)
           THEN oldData' = img /\ pc' = "getNew" /\ result' = result
           ELSE oldData' = oldData /\ Return("errGetOldBase")
    /\ UNCHANGED <<orig, oldBase, newBase, rebased, origData, newData,
                   newBaseDigest, xfer, idx>>

\* newData, newBaseDigest, err := r.getImageData(newBase)
GetNew ==
    /\ pc = "getNew"
    /\ UNCHANGED <<tvars, pvars>>
    /\ \E img \in NewImages, ms \in FetchStatuses, cs \in FetchStatuses,
          hdr \in HeaderDigests :
        /\ reqs' = reqs \o getImageDataReqs(newBase, img, ms, cs)
        /\ IF getImageDataOK(ms, cs)
           THEN /\ newData' = img
                /\ newBaseDigest' = getImageDataDigest(newBase, hdr)
                /\ pc' = "basis" /\ result' = result
           ELSE /\ newData' = newData /\ newBaseDigest' = newBaseDigest
                /\ Return("errGetNewBase")
    /\ UNCHANGED <<orig, oldBase, newBase, rebased, origData, oldData, xfer, idx>>

\* The basis loop, then the choice between mirror and mount.
CheckBasis ==
    /\ pc = "basis"
    /\ UNCHANGED <<tvars, pvars>>
    /\ LET out == BasisCheck(origData.manifest.layers, oldData.manifest.layers) IN
       IF out = "pass"
       THEN /\ pc' = "transfer" /\ result' = result
            /\ xfer' = TransferMode(newBase, rebased)
            /\ idx' = 1
       ELSE Return(out) /\ UNCHANGED <<xfer, idx>>
    /\ UNCHANGED <<orig, oldBase, newBase, rebased, origData, oldData, newData,
                   newBaseDigest, reqs>>

\* r.mount when to.repo == from.repo: nothing to mount.
MountSameRepo ==
    /\ pc = "transfer" /\ xfer = "mount"
    /\ UNCHANGED <<tvars, pvars>>
    /\ rebased.repo = newBase.repo
    /\ pc' = "splice"
    /\ UNCHANGED <<orig, oldBase, newBase, rebased, origData, oldData, newData,
                   newBaseDigest, xfer, idx, reqs, result>>

\* One iteration of the loop of r.mount: the mount POST of layer idx.
\* 201 goes on to the next layer, 202 returns r.mirror(to, from, m), which
\* starts at the first layer of the manifest.
MountLayer ==
    /\ pc = "transfer" /\ xfer = "mount"
    /\ UNCHANGED <<tvars, pvars>>
    /\ rebased.repo # newBase.repo
    /\ idx <= Len(newData.manifest.layers)
    /\ \E st \in MountStatuses :
        /\ reqs' = Append(reqs, MountPost(rebased, newBase, newData.manifest.layers[idx], st))
        /\ IF st = TransportErr
           THEN Return("errMount") /\ UNCHANGED <<xfer, idx>>
           ELSE IF st = StatusAccepted
           THEN xfer' = "mirror" /\ idx' = 1 /\ UNCHANGED <<pc, result>>
           ELSE IF st # StatusCreated
           THEN Return("errMountHTTP") /\ UNCHANGED <<xfer, idx>>
           ELSE idx' = idx + 1 /\ UNCHANGED <<pc, result, xfer>>
    /\ UNCHANGED <<orig, oldBase, newBase, rebased, origData, oldData, newData,
                   newBaseDigest>>

\* The loop of r.mirror going on to the next layer after a refused upload.
MirrorBlobSkippingFailed ==
    /\ pc = "transfer" /\ xfer = "mirror"
    /\ UNCHANGED <<tvars, pvars>>
    /\ idx <= Len(newData.manifest.layers)
    /\ LET l == newData.manifest.layers[idx] IN
       \E gs \in BlobGetStatuses, ps \in UploadStatuses :
        IF gs = TransportErr
        THEN /\ reqs' = Append(reqs, getBlob(newBase.reg, newBase.repo, l, gs))
             /\ Return("errMirrorGet") /\ idx' = idx
        ELSE /\ reqs' = reqs \o
                    <<getBlob(newBase.reg, newBase.repo, l, gs),
                      putBlob(rebased.reg, rebased.repo, l,
                              IF gs = StatusOK THEN "layer" ELSE "errorBody", ps)>>
             /\ IF ps = StatusCreated
                THEN idx' = idx + 1 /\ UNCHANGED <<pc, result>>
                ELSE idx' = idx + 1 /\ UNCHANGED <<pc, result>>
    /\ UNCHANGED <<orig, oldBase, newBase, rebased, origData, oldData, newData,
                   newBaseDigest, xfer>>

\* One iteration of the loop of r.mirror: mirrorBlob of layer idx. getBlob
\* fails on a transport error only and hands over the response body
\* whatever the status; putBlob expects 201.
MirrorBlob ==
    /\ pc = "transfer" /\ xfer = "mirror"
    /\ UNCHANGED <<tvars, pvars>>
    /\ idx <= Len(newData.manifest.layers)
    /\ LET l == newData.manifest.layers[idx] IN
       \E gs \in BlobGetStatuses, ps \in UploadStatuses :
        IF gs = TransportErr
        THEN /\ reqs' = Append(reqs, getBlob(newBase.reg, newBase.repo, l, gs))
             /\ Return("errMirrorGet") /\ idx' = idx
        ELSE /\ reqs' = reqs \o
                    <<getBlob(newBase.reg, newBase.repo, l, gs),
                      putBlob(rebased.reg, rebased.repo, l,
                              IF gs = StatusOK THEN "layer" ELSE "errorBody", ps)>>
             /\ IF ps = StatusCreated
                THEN idx' = idx + 1 /\ UNCHANGED <<pc, result>>
                ELSE Return("errMirrorPut") /\ idx' = idx
    /\ UNCHANGED <<orig, oldBase, newBase, rebased, origData, oldData, newData,
                   newBaseDigest, xfer>>

\* The end of the transfer mounting, on top, the layers kept from original.
TransferDoneMountingRetained ==
    /\ pc = "transfer"
    /\ UNCHANGED <<tvars, pvars>>
    /\ xfer = "mount" => rebased.repo # newBase.repo
    /\ idx > Len(newData.manifest.layers)
    /\ pc' = "splice"
    /\ reqs' = reqs \o [i \in 1..(Len(origData.manifest.layers) - Len(oldData.manifest.layers)) |->
                          MountPost(rebased, orig,
                                    origData.manifest.layers[Len(oldData.manifest.layers) + i],
                                    StatusCreated)]
    /\ UNCHANGED <<orig, oldBase, newBase, rebased, origData, oldData, newData,
                   newBaseDigest, xfer, idx, result>>

\* The loop of r.mount or r.mirror has run through every layer.
TransferDone ==
    /\ pc = "transfer"
    /\ UNCHANGED <<tvars, pvars>>
    /\ xfer = "mount" => rebased.repo # newBase.repo
    /\ idx > Len(newData.manifest.layers)
    /\ pc' = "splice"
    /\ UNCHANGED <<orig, oldBase, newBase, rebased, origData, oldData, newData,
                   newBaseDigest, xfer, idx, reqs, result>>

\* The config as Rebase leaves it before serializing: the three splices and
\* the "rebase" label.
SplicedConfig(oc, old, new, nb, dg) ==
    [oc EXCEPT
        !.History = Splice(new.History, oc.History, old.History),
        !.DiffIDs = Splice(new.DiffIDs, oc.DiffIDs, old.DiffIDs),
        !.Labels = IF ~isDigest(nb) THEN NewRebaseLabel(nb, dg) ELSE @]

\* Spliced layers under the config descriptor that was fetched.
SplicedManifestStaleConfig(om, old, new, b) ==
    [om EXCEPT !.layers = Splice(new.layers, om.layers, old.layers)]

\* The manifest as Rebase leaves it: spliced layers, config digest and size
\* of the serialized config b.
SplicedManifest(om, old, new, b) ==
    [om EXCEPT
        !.layers = Splice(new.layers, om.layers, old.layers),
        !.config = [size |-> ByteLen(b), digest |-> Sha256(b)]]

\* The three appends, the label and the digest of the new config blob.
\* Slicing past the end of a sequence of original faults, and so does
\* toJSON on a document without a "config" object.
SpliceStep ==
    /\ pc = "splice"
    /\ UNCHANGED <<tvars, pvars>>
    /\ IF \/ SliceFaults(origData.manifest.layers, oldData.manifest.layers)
          \/ SliceFaults(origData.config.History, oldData.config.History)
          \/ SliceFaults(origData.config.DiffIDs, oldData.config.DiffIDs)
          \/ toJSONFaults(origData.config)
       THEN Return("panic") /\ origData' = origData
       ELSE LET c == SplicedConfig(origData.config, oldData.config, newData.config,
                                   newBase, newBaseDigest)
                b == toJSON(c)
            IN /\ origData' = ImageData(SplicedManifest(origData.manifest, oldData.manifest,
                                                        newData.manifest, b), c)
               /\ pc' = "putBlob" /\ result' = result
    /\ UNCHANGED <<orig, oldBase, newBase, rebased, oldData, newData,
                   newBaseDigest, xfer, idx, reqs>>

\* Config blob upload whose error is dropped.
PutConfigBlobIgnoringError ==
    /\ pc = "putBlob"
    /\ UNCHANGED <<tvars, pvars>>
    /\ \E st \in UploadStatuses :
        reqs' = Append(reqs, putConfigBlob(rebased.reg, rebased.repo,
                                           origData.manifest.config.digest,
                                           toJSON(origData.config), st))
    /\ pc' = "putManifest"
    /\ UNCHANGED <<orig, oldBase, newBase, rebased, origData, oldData, newData,
                   newBaseDigest, xfer, idx, result>>

\* blob, err := origData.config.toJSON(); r.putBlob(...)
PutConfigBlob ==
    /\ pc = "putBlob"
    /\ UNCHANGED <<tvars, pvars>>
    /\ \E st \in UploadStatuses :
        /\ reqs' = Append(reqs, putConfigBlob(rebased.reg, rebased.repo,
                                              origData.manifest.config.digest,
                                              toJSON(origData.config), st))
        /\ IF st = StatusCreated
           THEN pc' = "putManifest" /\ result' = result
           ELSE Return("errPostConfigBlob")
    /\ UNCHANGED <<orig, oldBase, newBase, rebased, origData, oldData, newData,
                   newBaseDigest, xfer, idx>>

\* Manifest PUT that is tried a second time after a failure.
PutManifestRetrying ==
    /\ pc = "putManifest"
    /\ UNCHANGED <<tvars, pvars>>
    /\ \E st \in PutManifestStatuses :
        /\ reqs' = Append(reqs, putManifest(rebased, origData.manifest, st))
        /\ IF st = StatusCreated \/ st = StatusOK
           THEN Return("ok")
           ELSE IF reqs[Len(reqs)].op = "putManifest"
           THEN Return("errPutManifest")
           ELSE UNCHANGED <<pc, result>>
    /\ UNCHANGED <<orig, oldBase, newBase, rebased, origData, oldData, newData,
                   newBaseDigest, xfer, idx>>

\* r.putManifest(rebased, origData.manifest)
PutManifest ==
    /\ pc = "putManifest"
    /\ UNCHANGED <<tvars, pvars>>
    /\ \E st \in PutManifestStatuses :
        /\ reqs' = Append(reqs, putManifest(rebased, origData.manifest, st))
        /\ IF st = StatusCreated \/ st = StatusOK
           THEN Return("ok")
           ELSE Return("errPutManifest")
    /\ UNCHANGED <<orig, oldBase, newBase, rebased, origData, oldData, newData,
                   newBaseDigest, xfer, idx>>

Next ==
    \/ CheckRebased
    \/ GetOrig
    \/ CheckBases
    \/ GetOld
    \/ GetNew
    \/ CheckBasis
    \/ MountSameRepo
    \/ MountLayer
    \/ MirrorBlob
    \/ TransferDone
    \/ SpliceStep
    \/ PutConfigBlob
    \/ PutManifest

Spec == Init /\ [][Next]_vars

\* Rebase called with both bases omitted (main.go passes FromString("") for
\* an unset flag), against originals carrying any label.
InitLabel ==
    /\ Init
    /\ oldBase = NilName
    /\ newBase = NilName

NextLabel ==
    \/ CheckRebased
    \/ GetOrigLabelled
    \/ CheckBases
    \/ GetOld
    \/ GetNew
    \/ CheckBasis
    \/ MountSameRepo
    \/ MountLayer
    \/ MirrorBlob
    \/ TransferDone
    \/ SpliceStep
    \/ PutConfigBlob
    \/ PutManifest

SpecLabel == InitLabel /\ [][NextLabel]_vars

\* Rebase called with a target outside original's repository: in another
\* repository of original's registry (with a new base in a third
\* repository, or in target's), or in another registry.
TargetChoices ==
    {<<Name("r1", "copy", "rebased", ""), Name("r1", "base", "latest", "")>>,
     <<Name("r1", "copy", "rebased", ""), Name("r1", "copy", "stable", "")>>,
     <<Name("r3", "app", "rebased", ""), Name("r1", "base", "latest", "")>>}

InitElsewhere ==
    /\ pc = "start"
    /\ TransportIdle
    /\ ParserIdle
    /\ orig = OrigName
    /\ oldBase = OldBaseName
    /\ \E t \in TargetChoices : rebased = t[1] /\ newBase = t[2]
    /\ origData = NoData
    /\ oldData = NoData
    /\ newData = NoData
    /\ newBaseDigest = ""
    /\ xfer = ""
    /\ idx = 0
    /\ reqs = <<>>
    /\ result = "running"

NextElsewhere ==
    \/ CheckRebased
    \/ GetOrig
    \/ CheckBases
    \/ GetOld
    \/ GetNew
    \/ CheckBasis
    \/ MountSameRepo
    \/ MountLayer
    \/ MirrorBlob
    \/ TransferDone
    \/ SpliceStep
    \/ PutConfigBlob
    \/ PutManifest

SpecElsewhere == InitElsewhere /\ [][NextElsewhere]_vars

\* main: the values of --old_base and --new_base handed to Rebase through
\* FromString: both unset, both no reference, one of them unset or no
\* reference, both a reference.
NotAName == <<"totally incomprehensible">>

FlagChoices ==
    {<<<<>>, <<>>>>, <<NotAName, NotAName>>,
     <<<<>>, String(Name("r1", "app", "stable", ""))>>,
     <<NotAName, String(Name("r1", "app", "stable", ""))>>,
     <<String(OldBaseName), <<>>>>, <<String(OldBaseName), NotAName>>,
     <<String(OldBaseName), String(Name("r1", "app", "stable", ""))>>}

InitFlags ==
    /\ pc = "start"
    /\ TransportIdle
    /\ fnIn \in FlagChoices
    /\ fnOut = <<>>
    /\ orig = OrigName
    /\ oldBase = FromString(fnIn[1])
    /\ newBase = FromString(fnIn[2])
    /\ rebased = Name("r1", "app", "rebased", "")
    /\ origData = NoData
    /\ oldData = NoData
    /\ newData = NoData
    /\ newBaseDigest = ""
    /\ xfer = ""
    /\ idx = 0
    /\ reqs = <<>>
    /\ result = "running"

NextFlags ==
    \/ CheckRebased
    \/ GetOrig
    \/ CheckBases
    \/ GetOld
    \/ GetNew
    \/ CheckBasis
    \/ MountSameRepo
    \/ MountLayer
    \/ MirrorBlob
    \/ TransferDone
    \/ SpliceStep
    \/ PutConfigBlob
    \/ PutManifest

SpecFlags == InitFlags /\ [][NextFlags]_vars

\* A client built by NewDockerCredsClient, used for up to MaxCalls requests
\* while no Rebase is running.
RebaserIdle ==
    /\ pc = "start" /\ orig = OrigName /\ oldBase = NilName /\ newBase = NilName
    /\ rebased = Name("r1", "app", "rebased", "")
    /\ origData = NoData /\ oldData = NoData /\ newData = NoData
    /\ newBaseDigest = "" /\ xfer = "" /\ idx = 0 /\ reqs = <<>>
    /\ result = "running"

InitTransport ==
    /\ RebaserIdle
    /\ ParserIdle
    /\ cache = EmptyMap
    /\ store \in Stores
    /\ tlog = <<>>
    /\ gor = <<>>

\* One call of RoundTrip, from entry to return.
DoRoundTrip ==
    /\ Len(tlog) < MaxCalls
    /\ \E r \in Requests : \E o \in RoundTrip(cache, r) :
        /\ cache' = o.cache
        /\ tlog' = Append(tlog, [req |-> r, events |-> o.events, status |-> o.status,
                                  err |-> o.err, errResp |-> o.errResp,
                                  challenge |-> o.challenge,
                                  before |-> cache, after |-> o.cache])
    /\ UNCHANGED <<store, gor, rvars, pvars>>

NextTransport == DoRoundTrip

SpecTransport == InitTransport /\ [][NextTransport]_vars

\* ---------------------------------------------------------------------
\* RoundTrip called from several goroutines on one transport. The code
\* takes no lock, so the steps of the calls interleave freely; a map access
\* is not atomic and is a step that begins and a step that ends.
\* ---------------------------------------------------------------------
MaxGoroutines == 2

Goroutines == 1..MaxGoroutines

\* Where a goroutine is in RoundTrip, the request it holds, and the
\* credential it is about to store.
Goroutine(at, r, auth) == [at |-> at, req |-> r, auth |-> auth]

\* The goroutines reading the map, and those writing it.
Looking == {g \in DOMAIN gor : gor[g].at = "looking"}
Storing == {g \in DOMAIN gor : gor[g].at = "storing"}

\* g is inside a map access while another goroutine writes the map, or
\* writes it while another is inside an access.
Races(g) ==
    \/ g \in Looking \cup Storing /\ Storing \ {g} # {}
    \/ g \in Storing /\ Looking \ {g} # {}

InitConcurrent ==
    /\ RebaserIdle
    /\ ParserIdle
    /\ cache = EmptyMap
    /\ store \in Stores
    /\ tlog = <<>>
    /\ gor = [g \in Goroutines |-> Goroutine("idle", NoRequest, NoAuth)]

\* The caller hands g a request; a request with an Authorization header
\* goes straight to the inner transport.
Enter(g) ==
    /\ gor[g].at = "idle"
    /\ \E r \in Requests :
         gor' = [gor EXCEPT ![g] = Goroutine(IF HasAuthorization(r) THEN "inner" ELSE "lookup",
                                             r, NoAuth)]
    /\ UNCHANGED <<cache, store, tlog, rvars, pvars>>

\* auth, found := t.cache[r.URL.Host] begins.
BeginLookup(g) ==
    /\ gor[g].at = "lookup"
    /\ gor' = [gor EXCEPT ![g].at = "looking"]
    /\ UNCHANGED <<cache, store, tlog, rvars, pvars>>

\* The map read ends: a hit sets the header, a miss goes on to the config
\* file. A read that raced with a write may see the map of before or after.
EndLookup(g) ==
    /\ gor[g].at = "looking"
    /\ LET r == gor[g].req IN
       \/ /\ r.host \in DOMAIN cache
          /\ gor' = [gor EXCEPT ![g] = Goroutine("inner", SetAuthorization(r, Basic(cache[r.host])),
                                                 NoAuth)]
       \/ /\ r.host \notin DOMAIN cache \/ Races(g)
          /\ gor' = [gor EXCEPT ![g].at = "config"]
    /\ UNCHANGED <<cache, store, tlog, rvars, pvars>>

\* The config file is read and a credential looked for: an error return, a
\* credential from a helper or from auths, or the path without credentials.
ResolveCredential(g) ==
    /\ gor[g].at = "config"
    /\ LET r == gor[g].req
           hk == MatchingKeys(store.credHelpers, r.host)
           ak == MatchingKeys(store.auths, r.host) IN
       IF store.state # "ok" THEN gor' = [gor EXCEPT ![g].at = "done"]
       ELSE IF hk # {}
       THEN \E k \in hk, hr \in HelperResults :
              LET auth == invokeHelper(store.credHelpers[k], Sprintf("https://%s", k)) IN
              gor' = [gor EXCEPT ![g] = IF hr # "ok" THEN Goroutine("done", r, NoAuth)
                                        ELSE Goroutine("store", SetAuthorization(r, Basic(auth)), auth)]
       ELSE IF ak # {}
       THEN \E k \in ak :
              gor' = [gor EXCEPT ![g] = Goroutine("store", SetAuthorization(r, Basic(store.auths[k])),
                                                  store.auths[k])]
       ELSE gor' = [gor EXCEPT ![g].at = "fallback"]
    /\ UNCHANGED <<cache, store, tlog, rvars, pvars>>

\* t.cache[r.URL.Host] = auth begins.
BeginStore(g) ==
    /\ gor[g].at = "store"
    /\ gor' = [gor EXCEPT ![g].at = "storing"]
    /\ UNCHANGED <<cache, store, tlog, rvars, pvars>>

\* The map write ends. A write that raced with another access may be lost.
EndStore(g) ==
    /\ gor[g].at = "storing"
    /\ \/ cache' = CachePut(cache, gor[g].req.host, gor[g].auth)
       \/ Races(g) /\ cache' = cache
    /\ gor' = [gor EXCEPT ![g] = Goroutine("inner", gor[g].req, NoAuth)]
    /\ UNCHANGED <<store, tlog, rvars, pvars>>

\* return t.inner.RoundTrip(r)
SendInner(g) ==
    /\ gor[g].at = "inner"
    /\ gor' = [gor EXCEPT ![g].at = "done"]
    /\ UNCHANGED <<cache, store, tlog, rvars, pvars>>

\* The request without credentials and what follows it; this path neither
\* reads nor writes the map.
Fallback(g) ==
    /\ gor[g].at = "fallback"
    /\ \E o \in Unauthenticated(<<>>, cache, gor[g].req) :
         gor' = [gor EXCEPT ![g].at = IF o.err = "panic" THEN "panicked" ELSE "done"]
    /\ UNCHANGED <<cache, store, tlog, rvars, pvars>>

\* The runtime notices the concurrent map access and ends the process.
ThrowConcurrentMapAccess ==
    /\ \E g \in DOMAIN gor : Races(g)
    /\ gor' = [g \in DOMAIN gor |-> Goroutine("fatal", NoRequest, NoAuth)]
    /\ UNCHANGED <<cache, store, tlog, rvars, pvars>>

NextConcurrent ==
    \/ \E g \in Goroutines : Enter(g)
    \/ \E g \in Goroutines : BeginLookup(g)
    \/ \E g \in Goroutines : EndLookup(g)
    \/ \E g \in Goroutines : ResolveCredential(g)
    \/ \E g \in Goroutines : BeginStore(g)
    \/ \E g \in Goroutines : EndStore(g)
    \/ \E g \in Goroutines : SendInner(g)
    \/ \E g \in Goroutines : Fallback(g)
    \/ ThrowConcurrentMapAccess

SpecConcurrent == InitConcurrent /\ [][NextConcurrent]_vars

\* Bearer challenges as the claim writes them: the three pairs in any
\* order, separated by commas, with values of up to MaxValueLen characters
\* that may be "=".
HeaderValues == SeqsUpTo({"x", "="}, MaxValueLen)

PairOrders ==
    {o \in [1..3 -> {"realm", "service", "scope"}] : \A i, j \in 1..3 : i # j => o[i] # o[j]}

KeyOf(name) ==
    IF name = "realm" THEN RealmKey ELSE IF name = "service" THEN ServiceKey ELSE ScopeKey

BearerHeader(o, val) ==
    <<"B", "e", "a", "r", "e", "r", " ">> \o Pair(KeyOf(o[1]), val[o[1]]) \o <<",">>
        \o Pair(KeyOf(o[2]), val[o[2]]) \o <<",">> \o Pair(KeyOf(o[3]), val[o[3]])

BearerHeaders ==
    { BearerHeader(o, val) : o \in PairOrders,
                             val \in [{"realm", "service", "scope"} -> HeaderValues] }

\* parseWwwAuthenticate applied to a challenge.
InitParse ==
    /\ RebaserIdle
    /\ TransportIdle
    /\ fnIn \in BearerHeaders
    /\ fnOut = <<>>

ParseHeader ==
    /\ fnOut = <<>>
    /\ fnOut' = <<parseWwwAuthenticate(fnIn)>>
    /\ UNCHANGED <<fnIn, rvars, tvars>>

NextParse == ParseHeader

SpecParse == InitParse /\ [][NextParse]_vars

\* Www-Authenticate values of any shape: nothing or a scheme and the realm
\* key, followed by up to MaxHeaderLen characters out of a letter, "=", a
\* comma, a quote and a space.
MaxHeaderLen == 4

AnyHeaders ==
    { pre \o rest : pre \in {<<>>, <<"B", "e", "a", "r", "e", "r", " ">> \o RealmKey},
                    rest \in SeqsUpTo({"x", "=", ",", "\"", " "}, MaxHeaderLen) }

InitParseAny ==
    /\ RebaserIdle
    /\ TransportIdle
    /\ fnIn \in AnyHeaders
    /\ fnOut = <<>>

NextParseAny == ParseHeader

SpecParseAny == InitParseAny /\ [][NextParseAny]_vars

\* Reference strings handed to FromString: with and without a registry
\* host, with a tag, a digest, both or neither, and strings that are no
\* reference.
ReferenceSuffixes ==
    {<<>>, <<":", "tag">>, <<":", "latest">>, <<"@", "sha256:f">>,
     <<":", "tag", "@", "sha256:f">>, <<":", "latest", "@", "sha256:f">>}

ReferenceStrings ==
    { <<repo>> \o sfx : repo \in {"ubuntu", "img"}, sfx \in ReferenceSuffixes }
    \cup { <<host, "/", repo>> \o sfx :
              host \in {"gcr.io", "hostwithport:8080"},
              repo \in {"ubuntu", "img", "proj/img"}, sfx \in ReferenceSuffixes }
    \cup { <<>>, <<"totally incomprehensible">>, <<"gcr.io", "/", "img", ":", "">>,
           <<"gcr.io", "/", "img", "@", "">> }

\* FromString applied to a string, then String and FromString applied to
\* what it returned.
InitName ==
    /\ RebaserIdle
    /\ TransportIdle
    /\ fnIn \in ReferenceStrings
    /\ fnOut = <<>>

ParseName ==
    /\ fnOut = <<>>
    /\ fnOut' = <<FromString(fnIn)>>
    /\ UNCHANGED <<fnIn, rvars, tvars>>

RenderAndParse ==
    /\ Len(fnOut) = 1
    /\ fnOut[1] # NilName
    /\ fnOut' = Append(fnOut, FromString(String(fnOut[1])))
    /\ UNCHANGED <<fnIn, rvars, tvars>>

NextName ==
    \/ ParseName
    \/ RenderAndParse

SpecName == InitName /\ [][NextName]_vars

\* ---------------------------------------------------------------------
\* The Rebase built on go-containerregistry: the basis check and the
\* stitching of the rebased image out of mutate.Append calls.
\* ---------------------------------------------------------------------
\* The history entry of layer i of an image whose every history entry
\* stands for a layer.
LayerHistory(who, n) == [i \in 1..n |-> <<who, i>>]

\* orig, oldBase and newBase as remote.Image serves them.
StitchInput(origLayers, oldBaseLayers, newLen) ==
    [origLayers |-> origLayers, origHistory |-> LayerHistory("orig", Len(origLayers)),
     oldBaseLayers |-> oldBaseLayers,
     newBaseLayers |-> [i \in 1..newLen |-> NewLayerDigest(i)],
     newHistory |-> LayerHistory("new", newLen)]

StitchInputs ==
    { StitchInput(ol, bl, n) : ol \in SeqsUpTo(BaseDigests, MaxLayers + 1),
                               bl \in SeqsUpTo(BaseDigests, MaxLayers),
                               n \in 0..MaxNewLayers }

\* rebasedImage with the loop it is in.
Image(at, layers, history) == [at |-> at, Layers |-> layers, History |-> history]

\* mutate.Append(img, mutate.Addendum{Layer: l, History: h})
mutateAppend(img, l, h) ==
    [img EXCEPT !.Layers = Append(@, l), !.History = Append(@, h)]

\* The check that oldBase's layers are a prefix of orig's.
basedOn(origLayers, oldBaseLayers) ==
    /\ Len(oldBaseLayers) <= Len(origLayers)
    /\ \A i \in 1..Len(oldBaseLayers) : oldBaseLayers[i] = origLayers[i]

InitStitch ==
    /\ RebaserIdle
    /\ TransportIdle
    /\ fnIn \in StitchInputs
    /\ fnOut = <<>>

\* The basis check, then mutate.Config(empty.Image, rebasedConfig).
StartStitch ==
    /\ fnOut = <<>>
    /\ fnOut' = <<IF basedOn(fnIn.origLayers, fnIn.oldBaseLayers)
                  THEN Image("newBaseLayers", <<>>, <<>>)
                  ELSE Image("errNotBasedOn", <<>>, <<>>)>>
    /\ UNCHANGED <<fnIn, rvars, tvars>>

\* One iteration of for i := range newBaseLayers, or its end.
AppendNewBaseLayer ==
    /\ Len(fnOut) = 1
    /\ fnOut[1].at = "newBaseLayers"
    /\ LET i == Len(fnOut[1].Layers) IN
       fnOut' = <<IF i < Len(fnIn.newBaseLayers)
                  THEN mutateAppend(fnOut[1], fnIn.newBaseLayers[i + 1], fnIn.newHistory[i + 1])
                  ELSE [fnOut[1] EXCEPT !.at = "origLayers"]>>
    /\ UNCHANGED <<fnIn, rvars, tvars>>

\* One iteration of for i := range origLayers[len(oldBaseLayers):], which
\* appends origLayers[i] with origConfig.History[i], or its end.
AppendOrigLayer ==
    /\ Len(fnOut) = 1
    /\ fnOut[1].at = "origLayers"
    /\ LET i == Len(fnOut[1].Layers) - Len(fnIn.newBaseLayers) IN
       fnOut' = <<IF i < Len(SliceFrom(fnIn.origLayers, Len(fnIn.oldBaseLayers)))
                  THEN mutateAppend(fnOut[1], fnIn.origLayers[i + 1], fnIn.origHistory[i + 1])
                  ELSE [fnOut[1] EXCEPT !.at = "write"]>>
    /\ UNCHANGED <<fnIn, rvars, tvars>>

\* remote.Write of the stitched image.
WriteImage ==
    /\ Len(fnOut) = 1
    /\ fnOut[1].at = "write"
    /\ fnOut' = <<[fnOut[1] EXCEPT !.at = "written"]>>
    /\ UNCHANGED <<fnIn, rvars, tvars>>

NextStitch ==
    \/ StartStitch
    \/ AppendNewBaseLayer
    \/ AppendOrigLayer
    \/ WriteImage

SpecStitch == InitStitch /\ [][NextStitch]_vars

TypeOK ==
    /\ pc \in {"start", "getOrig", "checkBases", "getOld", "getNew", "basis",
               "transfer", "splice", "putBlob", "putManifest", "done"}
    /\ (pc = "done") = (result # "running")

\* ---------------------------------------------------------------------
\* Properties.
\* ---------------------------------------------------------------------
\* The manifest and config of original as the registry served them (the
\* first two requests of a run that got past the fetch of original).
FetchedOrigLayers == reqs[1].manifest.layers
FetchedOrigConfig == configFromJSON(reqs[2].body)

OldLayers == oldData.manifest.layers
NewLayers == newData.manifest.layers

\* The basis loop has run: all three images are fetched and pc is past it.
BasisChecked == newData # NoData /\ pc # "basis"

\* The basis loop has run and let the run through.
BasisPassed == xfer # ""

ReqsOf(ops) == {i \in 1..Len(reqs) : reqs[i].op \in ops}

PushOps == {"mount", "putBlob", "putConfigBlob", "putManifest"}

\* p is n followed by o from index Len(k) on.
IsSplice(p, n, o, k) ==
    /\ Len(p) = Len(n) + Len(o) - Len(k)
    /\ \A i \in 1..Len(n) : p[i] = n[i]
    /\ \A i \in 1..(Len(o) - Len(k)) : p[Len(n) + i] = o[Len(k) + i]

\* C1: when Rebase succeeds, the layer list of the manifest PUT to target is
\* newBase's layers followed by original's layers from index
\* len(oldBase.layers) on.
C1_PushedLayersAreSplice ==
    result = "ok" =>
        /\ reqs[Len(reqs)].op = "putManifest"
        /\ reqs[Len(reqs)].manifest.layers =
              NewLayers \o SubSeq(FetchedOrigLayers, Len(OldLayers) + 1,
                                  Len(FetchedOrigLayers))

C1_Witness ==
    /\ result = "ok"
    /\ Len(FetchedOrigLayers) = 2 /\ Len(OldLayers) = 1 /\ Len(NewLayers) = 2
    /\ reqs[Len(reqs)].manifest.layers =
          <<NewLayers[1], NewLayers[2], FetchedOrigLayers[2]>>

\* C2: once the basis check has run, an oldBase whose layers are the first k
\* layers of original passes it; a digest that differs at an index below k
\* makes Rebase return the "not based on" error, whatever original holds
\* from index k on, and then no mount, blob upload or manifest PUT has been
\* issued.
C2_BasisCheck ==
    BasisChecked =>
        /\ (/\ Len(OldLayers) <= Len(FetchedOrigLayers)
            /\ OldLayers = SubSeq(FetchedOrigLayers, 1, Len(OldLayers)))
           => (BasisPassed /\ result # "errNotBasedOn")
        /\ (\E i \in 1..Len(OldLayers) :
                i <= Len(FetchedOrigLayers) /\ FetchedOrigLayers[i] # OldLayers[i])
           => (result = "errNotBasedOn" /\ ~BasisPassed /\ ReqsOf(PushOps) = {}
               /\ ReqsOf({"getBlob"}) = {})

C2_Witness ==
    /\ result = "errNotBasedOn"
    /\ Len(FetchedOrigLayers) = 2 /\ Len(OldLayers) = 2
    /\ FetchedOrigLayers[1] = OldLayers[1]
    /\ FetchedOrigLayers[2] # OldLayers[2]
    /\ Len(reqs) = 6

\* C3 (as claimed): when oldBase has more layers than original and
\* original's layers are a prefix of oldBase's, Rebase returns the "not
\* based on" error and pushes nothing.
C3_LongerOldBaseReturnsError ==
    (/\ BasisChecked
     /\ Len(OldLayers) > Len(FetchedOrigLayers)
     /\ FetchedOrigLayers = SubSeq(OldLayers, 1, Len(FetchedOrigLayers)))
    => (result = "errNotBasedOn" /\ ReqsOf(PushOps) = {})

\* C4: a digest-addressed target makes Rebase return an error with no
\* request issued through the client.
C4_DigestTargetRejectedFirst ==
    rebased.dig # "" =>
        /\ reqs = <<>>
        /\ pc \in {"start", "done"}
        /\ pc = "done" => result = "errRebasedDigest"

C4_Witness == rebased.dig # "" /\ pc = "done" /\ result = "errRebasedDigest" /\ reqs = <<>>

\* C5 (as claimed): when exactly one of oldBase and newBase is supplied,
\* Rebase has issued no request when it returns the both-or-neither error.
C5_BothOrNeitherBeforeIO ==
    (/\ (oldBase = NilName) # (newBase = NilName)
     /\ result = "errBothOrNeither")
    => reqs = <<>>

\* C6: a manifest PUT directly follows the upload of the config blob it
\* names, to target's repository and answered 201; after a failed config
\* blob upload there is no manifest PUT.
C6_ManifestAfterConfigBlob ==
    /\ \A i \in ReqsOf({"putManifest"}) :
        /\ i > 1
        /\ reqs[i - 1].op = "putConfigBlob"
        /\ reqs[i - 1].status = StatusCreated
        /\ reqs[i - 1].reg = rebased.reg
        /\ reqs[i - 1].repo = rebased.repo
        /\ reqs[i - 1].digest = reqs[i].manifest.config.digest
    /\ (\E j \in ReqsOf({"putConfigBlob"}) : reqs[j].status # StatusCreated)
        => ReqsOf({"putManifest"}) = {}

C6_Witness ==
    /\ Len(reqs) > 1
    /\ reqs[Len(reqs)].op = "putManifest"
    /\ reqs[Len(reqs) - 1].op = "putConfigBlob"
    /\ reqs[Len(reqs) - 1].status = StatusCreated

\* C7: the manifest PUT is the last request of a run and there is at most
\* one; a run that has not returned, or that failed before the manifest
\* PUT, has issued none.
C7_ManifestPutLastAndOnce ==
    /\ \A i \in ReqsOf({"putManifest"}) :
        /\ i = Len(reqs)
        /\ pc = "done"
        /\ reqs[i].reg = rebased.reg /\ reqs[i].repo = rebased.repo
        /\ reqs[i].ref = rebased.tag
    /\ Cardinality(ReqsOf({"putManifest"})) <= 1
    /\ result \notin {"ok", "errPutManifest"} => ReqsOf({"putManifest"}) = {}

C7_Witness ==
    /\ result = "errPostConfigBlob"
    /\ \E i \in ReqsOf({"putBlob"}) : reqs[i].status = StatusCreated
    /\ ReqsOf({"putManifest"}) = {}

\* C8 (as claimed): in a transfer within one registry, a layer is downloaded
\* or re-uploaded only if its own mount was answered 202, and once the
\* transfer is over every layer has been attempted by mount.
C8_OnlyRefusedLayerMirrored ==
    (newBase.reg = rebased.reg /\ newBase.repo # rebased.repo) =>
        /\ \A i \in ReqsOf({"getBlob", "putBlob"}) :
              \E j \in ReqsOf({"mount"}) :
                  /\ j < i
                  /\ reqs[j].layer = reqs[i].layer
                  /\ reqs[j].status = StatusAccepted
        /\ pc = "splice" =>
              \A k \in 1..Len(NewLayers) :
                  \E j \in ReqsOf({"mount"}) : reqs[j].layer = NewLayers[k]

\* The requests of the layer transfer: what follows the six fetches.
XferReqs == SubSeq(reqs, 7, Len(reqs))

\* The transfer has run through every layer.
XferComplete == BasisPassed /\ pc \in {"splice", "putBlob", "putManifest"}

C10_ThreeSplices ==
    result = "ok" =>
        LET m == reqs[Len(reqs)].manifest
            c == reqs[Len(reqs) - 1].body
        IN /\ IsSplice(m.layers, NewLayers, FetchedOrigLayers, OldLayers)
           /\ IsSplice(c.history, newData.config.History,
                       FetchedOrigConfig.History, oldData.config.History)
           /\ IsSplice(c.rootfs.diff_ids, newData.config.DiffIDs,
                       FetchedOrigConfig.DiffIDs, oldData.config.DiffIDs)

C10_Witness ==
    /\ result = "ok"
    /\ Len(OldLayers) = 2 /\ Len(oldData.config.History) = 0
    /\ Len(oldData.config.DiffIDs) = 1
    /\ Len(NewLayers) = 1 /\ Len(FetchedOrigConfig.History) = 2
    /\ Len(reqs[Len(reqs)].manifest.layers) = 1
    /\ Len(reqs[Len(reqs) - 1].body.history) = 3
    /\ Len(reqs[Len(reqs) - 1].body.rootfs.diff_ids) = 2

\* The history entries that stand for a layer.
NonEmptyHistory(h) == SelectSeq(h, LAMBDA e : ~e.empty_layer)

\* The layer a diff_id or history entry <<image, index>> was served for (0
\* when the image has no such layer).
LayerServedFor(tok) ==
    LET ls == IF tok[1] = "orig" THEN FetchedOrigLayers
              ELSE IF tok[1] = "old" THEN OldLayers ELSE NewLayers
    IN IF tok[2] <= Len(ls) THEN ls[tok[2]] ELSE 0

\* layers, diff_ids and the layer-bearing history entries are pairwise
\* aligned by index: same length, and entry i of each describes layer i.
Aligned(layers, diffs, hist) ==
    /\ Len(diffs) = Len(layers)
    /\ Len(NonEmptyHistory(hist)) = Len(layers)
    /\ \A i \in 1..Len(layers) :
        /\ LayerServedFor(diffs[i]) = layers[i]
        /\ NonEmptyHistory(hist)[i].created_by = diffs[i]

\* C11 (as claimed): when original, oldBase and newBase are each served with
\* diff_ids and history aligned with their layers, layers, diff_ids and
\* history of the pushed image are aligned again.
C11_SplicePreservesAlignment ==
    (/\ result = "ok"
     /\ Aligned(FetchedOrigLayers, FetchedOrigConfig.DiffIDs, FetchedOrigConfig.History)
     /\ Aligned(OldLayers, oldData.config.DiffIDs, oldData.config.History)
     /\ Aligned(NewLayers, newData.config.DiffIDs, newData.config.History))
    => Aligned(reqs[Len(reqs)].manifest.layers,
               reqs[Len(reqs) - 1].body.rootfs.diff_ids,
               reqs[Len(reqs) - 1].body.history)

\* The config document Rebase serializes, computed from what was fetched.
RebasedConfigJSON ==
    toJSON(SplicedConfig(FetchedOrigConfig, oldData.config, newData.config,
                         newBase, newBaseDigest))

\* C12: the manifest PUT names the config by the sha256 and the byte length
\* of the serialized config after the splice and the label rewrite, and the
\* blob uploaded just before it under that digest is that serialization.
C12_ConfigDigestRecomputed ==
    \A i \in ReqsOf({"putManifest"}) :
        /\ i > 1
        /\ reqs[i - 1].op = "putConfigBlob"
        /\ reqs[i - 1].body = RebasedConfigJSON
        /\ reqs[i - 1].digest = Sha256(reqs[i - 1].body)
        /\ reqs[i].manifest.config.digest = Sha256(RebasedConfigJSON)
        /\ reqs[i].manifest.config.size = ByteLen(RebasedConfigJSON)
        /\ (RebasedConfigJSON # reqs[2].body
              => reqs[i].manifest.config.digest # reqs[1].manifest.config.digest)

C12_Witness ==
    /\ result = "ok"
    /\ reqs[Len(reqs)].op = "putManifest"
    /\ reqs[Len(reqs) - 1].body # reqs[2].body
    /\ reqs[Len(reqs)].manifest.config.digest # reqs[1].manifest.config.digest

\* C13 (as claimed): every config document that parsed is serialized again:
\* a run that faults does so on an index, never in toJSON; and the uploaded
\* document carries the fetched one's fields other than history, rootfs and
\* config.labels unchanged.
C13_ConfigReadModifyWrite ==
    /\ result = "panic" =>
          \/ BasisCheck(FetchedOrigLayers, OldLayers) = "panic"
          \/ SliceFaults(FetchedOrigLayers, OldLayers)
          \/ SliceFaults(FetchedOrigConfig.History, oldData.config.History)
          \/ SliceFaults(FetchedOrigConfig.DiffIDs, oldData.config.DiffIDs)
    /\ \A i \in ReqsOf({"putConfigBlob"}) :
          /\ reqs[i].body.architecture = reqs[2].body.architecture
          /\ reqs[i].body.hasConfig = reqs[2].body.hasConfig
          /\ reqs[i].body.config.user = reqs[2].body.config.user

\* C14 (as claimed): the uploaded config's rebase label is
\* "<registry>/<repository>@<digest resolved for newBase> <newBase as
\* given>" when newBase is tag-addressed, and the label map is the fetched
\* original's when newBase is digest-addressed.
C14_RebaseLabelWritten ==
    \A i \in ReqsOf({"putConfigBlob"}) :
        reqs[i].body.config.labels =
            IF newBase.dig = ""
            THEN RebaseLabel(<< <<newBase.reg, "/", newBase.repo, "@", newBaseDigest>>,
                                <<newBase.reg, "/", newBase.repo, ":", newBase.tag>> >>)
            ELSE reqs[2].body.config.labels

\* A label part that names an image by digest, and one that names it by tag.
ByDigest(part) == Len(part) = 5 /\ part[4] = "@"
ByTag(part) == Len(part) = 3 \/ (Len(part) = 5 /\ part[4] = ":")

\* The label of the fetched original is absent, has fewer than two parts,
\* names an old base by tag or names a new base by digest.
LabelRefused ==
    LET lbl == reqs[2].body.config.labels IN
    \/ ~lbl.hasRebase
    \/ Len(lbl.rebase) < 2
    \/ ByTag(lbl.rebase[1])
    \/ ByDigest(lbl.rebase[2])

LabelErrors ==
    {"errLabelMissing", "errLabelMalformed", "errLabelOldMalformed",
     "errLabelOldNotDigest", "errLabelNewMalformed", "errLabelNewDigest"}

\* C15: with both bases omitted, a run that got original and went past the
\* derivation either was refused with a label error after exactly the two
\* requests of the fetch of original (always so when the label is absent,
\* short, names the old base by tag or the new base by digest), or goes on
\* to fetch the old base the label names, by its digest, with the new base
\* the label names.
C15_BasesFromLabel ==
    (/\ Len(reqs) >= 2
     /\ reqs[2].status = StatusOK
     /\ pc \notin {"start", "getOrig", "checkBases"}) =>
        LET lbl == reqs[2].body.config.labels IN
        /\ LabelRefused => result \in LabelErrors
        /\ result \in LabelErrors => Len(reqs) = 2
        /\ result \notin LabelErrors =>
              /\ String(oldBase) = lbl.rebase[1]
              /\ String(newBase) = lbl.rebase[2]
              /\ Len(reqs) >= 3 =>
                    /\ reqs[3].op = "getManifest"
                    /\ reqs[3].ref = lbl.rebase[1][5]

C15_Witness ==
    /\ result = "errLabelNewDigest"
    /\ Len(reqs) = 2
    /\ reqs[2].status = StatusOK

\* What a second Rebase with both bases omitted derives from the config
\* this run pushed.
BasesOfPushed == getBasesFromLabel(configFromJSON(reqs[Len(reqs) - 1].body))

\* C16 (as claimed): after a successful run with a tag-addressed newBase, the
\* label of the pushed config is accepted by getBasesFromLabel and yields
\* newBase by its resolved digest as old base and newBase as given as new
\* base, whatever the registry answered to the newBase manifest GET.
C16_LabelRoundTrip ==
    (result = "ok" /\ newBase.dig = "") =>
        /\ BasesOfPushed.err = ""
        /\ BasesOfPushed.old = Name(newBase.reg, newBase.repo, "", newBaseDigest)
        /\ BasesOfPushed.new = newBase

\* ---------------------------------------------------------------------
\* Properties of the authenticating transport.
\* ---------------------------------------------------------------------
Calls == 1..Len(tlog)

EventsOf(i, kind) == {k \in 1..Len(tlog[i].events) : tlog[i].events[k].kind = kind}

LastEvent(i) == tlog[i].events[Len(tlog[i].events)]

\* Call i looked a Basic credential up (helper or auths) and sent it.
ResolvedBasic(i) ==
    /\ tlog[i].req.auth = NoAuth
    /\ EventsOf(i, "readConfig") # {}
    /\ LastEvent(i).kind = "inner"
    /\ LastEvent(i).req.auth # NoAuth
    /\ Head(LastEvent(i).req.auth) = "Basic "

\* Call i was given a token by the token endpoint.
GotToken(i) ==
    \E k \in EventsOf(i, "token") : tlog[i].events[k].status = StatusOK

\* C17: a call whose request carries an Authorization header does one inner
\* round trip of that very request and nothing else (no config read, no
\* helper, no token request), and leaves the cache as it was.
C17_PassThrough ==
    \A i \in Calls :
        tlog[i].req.auth # NoAuth =>
            /\ tlog[i].events = <<Inner(tlog[i].req, tlog[i].status)>>
            /\ tlog[i].after = tlog[i].before

C17_Witness ==
    \E i \in Calls :
        /\ tlog[i].req.auth # NoAuth
        /\ tlog[i].req.host \in DOMAIN tlog[i].before
        /\ tlog[i].status = StatusOK

\* C18: once a call has resolved a Basic credential for a host, every later
\* call to that host without an Authorization header is one inner round
\* trip carrying that credential: no helper, no read of the config file.
C18_BasicCredentialReused ==
    \A i \in Calls : \A j \in Calls :
        (/\ i < j
         /\ ResolvedBasic(i)
         /\ tlog[j].req.host = tlog[i].req.host
         /\ tlog[j].req.auth = NoAuth) =>
            tlog[j].events =
                <<Inner(SetAuthorization(tlog[j].req, LastEvent(i).req.auth), tlog[j].status)>>

C18_Witness ==
    \E i \in Calls : \E j \in Calls :
        /\ i < j
        /\ ResolvedBasic(i)
        /\ EventsOf(i, "helper") # {}
        /\ tlog[j].req.host = tlog[i].req.host
        /\ tlog[j].req.auth = NoAuth

\* The config file names no credential for the host.
BearerOnly(host) ==
    /\ store.state = "ok"
    /\ MatchingKeys(store.credHelpers, host) = {}
    /\ MatchingKeys(store.auths, host) = {}

\* C19: a call that obtains a token leaves the cache as it was; every cache
\* entry is a Basic credential some call resolved for that host; a host the
\* config file names no credential for has no entry, and every call to it
\* without an Authorization header starts over with the read of the config
\* file and the request without credentials, followed, when a token is
\* given, by the token request and the retry.
C19_BearerNeverCached ==
    /\ \A i \in Calls : GotToken(i) => tlog[i].after = tlog[i].before
    /\ \A h \in DOMAIN cache :
          \E i \in Calls :
              /\ ResolvedBasic(i)
              /\ tlog[i].req.host = h
              /\ LastEvent(i).req.auth = Basic(cache[h])
    /\ \A i \in Calls :
          (tlog[i].req.auth = NoAuth /\ BearerOnly(tlog[i].req.host)) =>
              /\ tlog[i].req.host \notin DOMAIN cache
              /\ Len(tlog[i].events) >= 2
              /\ tlog[i].events[1] = ReadConfig
              /\ tlog[i].events[2].kind = "inner"
              /\ tlog[i].events[2].req = tlog[i].req
              /\ GotToken(i) =>
                    /\ Len(tlog[i].events) = 4
                    /\ tlog[i].events[3].kind = "token"
                    /\ tlog[i].events[4].kind = "inner"

C19_Witness ==
    \E i \in Calls : \E j \in Calls :
        /\ i < j
        /\ tlog[j].req.host = tlog[i].req.host
        /\ GotToken(i)
        /\ GotToken(j)
        /\ cache = EmptyMap

\* C20: a call sends the request at most twice and asks for a token at most
\* once; after a token was given the call is the config read, the request
\* without credentials answered 401, the token request and the same request
\* with only "Authorization: Bearer <token>" set, whose answer is what the
\* call returns, a second 401 included.
C20_OneBearerRetry ==
    \A i \in Calls :
        /\ Cardinality(EventsOf(i, "inner")) <= 2
        /\ Cardinality(EventsOf(i, "token")) <= 1
        /\ GotToken(i) =>
              /\ Len(tlog[i].events) = 4
              /\ tlog[i].events[1] = ReadConfig
              /\ tlog[i].events[2] = Inner(tlog[i].req, StatusUnauthorized)
              /\ tlog[i].events[3].kind = "token"
              /\ tlog[i].events[4] =
                    Inner(SetAuthorization(tlog[i].req, Bearer(TokenValue)), tlog[i].status)
              /\ tlog[i].err = IF tlog[i].status = TransportErr THEN "errInner" ELSE ""

C20_Witness ==
    \E i \in Calls :
        /\ GotToken(i)
        /\ tlog[i].status = StatusUnauthorized
        /\ tlog[i].err = ""
        /\ tlog[i].req.method = "PUT"

\* Call i ran a credential helper that failed.
HelperFailed(i) ==
    \E k \in EventsOf(i, "helper") : tlog[i].events[k].status # 0

\* C21: a call whose credential helper fails returns an error and no
\* response, sends the request in no form (the config read and the helper
\* are all it did) and leaves the cache as it was.
C21_HelperFailureIsFatal ==
    \A i \in Calls :
        HelperFailed(i) =>
            /\ tlog[i].err = "errHelper"
            /\ tlog[i].status = 0
            /\ EventsOf(i, "inner") = {}
            /\ Len(tlog[i].events) = 2
            /\ tlog[i].events[1] = ReadConfig
            /\ tlog[i].after = tlog[i].before

C21_Witness ==
    \E i \in Calls :
        /\ HelperFailed(i)
        /\ MatchingKeys(store.auths, tlog[i].req.host) # {}
        /\ tlog[i].err = "errHelper"

\* Call i took the path without credentials: no Authorization header, no
\* cache entry, a config file that names no credential for the host.
OnUnauthenticatedPath(i) ==
    /\ tlog[i].req.auth = NoAuth
    /\ tlog[i].req.host \notin DOMAIN tlog[i].before
    /\ BearerOnly(tlog[i].req.host)

\* The status the request without credentials was answered with.
FirstStatus(i) == tlog[i].events[2].status

\* C22 (as claimed): on the path without credentials a 200 is returned as
\* is, and so is, with no token request and no retry, a 401 from which no
\* realm was parsed and any answer with another status.
C22_OtherAnswersReturnedUntouched ==
    \A i \in Calls :
        (/\ OnUnauthenticatedPath(i)
         /\ FirstStatus(i) # TransportErr
         /\ \/ FirstStatus(i) # StatusUnauthorized
            \/ parseWwwAuthenticate(tlog[i].challenge).realm = <<>>) =>
            /\ tlog[i].events = <<ReadConfig, Inner(tlog[i].req, FirstStatus(i))>>
            /\ tlog[i].status = FirstStatus(i)
            /\ tlog[i].err = ""

\* C23: a token request answered with a status outside 2xx ends the call
\* with an HTTPError carrying that answer; the request is not sent again
\* and the cache is as it was.
C23_TokenRefusalIsHTTPError ==
    \A i \in Calls :
        \A k \in EventsOf(i, "token") :
            (tlog[i].events[k].status # TransportErr
             /\ tlog[i].events[k].status \notin 200..299) =>
                /\ tlog[i].err = "HTTPError"
                /\ tlog[i].errResp = tlog[i].events[k].status
                /\ tlog[i].status = 0
                /\ k = Len(tlog[i].events)
                /\ Cardinality(EventsOf(i, "inner")) = 1
                /\ tlog[i].after = tlog[i].before

C23_Witness ==
    \E i \in Calls :
        /\ tlog[i].err = "HTTPError"
        /\ tlog[i].errResp = StatusServerError
        /\ LastEvent(i).kind = "token"
        /\ tlog[i].before # EmptyMap

\* C24: for a header Bearer realm="R",service="S",scope="C", the pairs in
\* any order and the values free of commas but not of "=", the parser
\* returns exactly R, S and C and does not fault.
C24_BearerChallengeParsed ==
    fnOut # <<>> =>
        \A o \in PairOrders : \A val \in [{"realm", "service", "scope"} -> HeaderValues] :
            fnIn = BearerHeader(o, val) =>
                fnOut[1] = [realm |-> val["realm"], service |-> val["service"],
                            scope |-> val["scope"], fault |-> FALSE]

C24_Witness ==
    /\ fnOut # <<>>
    /\ fnIn = BearerHeader(<<"scope", "realm", "service">>,
                           [realm |-> <<"=">>, service |-> <<"x">>, scope |-> <<>>])
    /\ fnOut[1].realm = <<"=">>

\* The string carries a tag; the string carries a digest; the string names
\* a registry host.
CarriesTag(s) == \E i \in 1..Len(s) : s[i] = ":"
CarriesDigest(s) == \E i \in 1..Len(s) : s[i] = "@"
NamesHost(s) == Len(s) >= 3 /\ s[2] = "/"

\* C25: what FromString returns for a string it accepts has exactly one of
\* tag and digest; a string with neither yields tag "latest", a string with
\* a digest and no tag yields that digest, and isDigest holds exactly when
\* the digest is the one populated.
C25_TagOrDigestNeverBoth ==
    (fnOut # <<>> /\ fnOut[1] # NilName) =>
        /\ (fnOut[1].tag # "") # (fnOut[1].dig # "")
        /\ (~CarriesTag(fnIn) /\ ~CarriesDigest(fnIn)) => fnOut[1].tag = "latest"
        /\ (~CarriesTag(fnIn) /\ CarriesDigest(fnIn)) => fnOut[1].dig = fnIn[Len(fnIn)]
        /\ CarriesTag(fnIn) => ~isDigest(fnOut[1])
        /\ isDigest(fnOut[1]) = (fnOut[1].tag = "")

C25_Witness ==
    /\ fnOut # <<>>
    /\ CarriesTag(fnIn) /\ CarriesDigest(fnIn)
    /\ fnOut[1].tag = "tag"
    /\ fnOut[1].dig = ""

\* C26 (as claimed): for a string without registry host FromString yields
\* registry index.docker.io and the repository as written.
C26_HostlessNameKeepsRepository ==
    (fnOut # <<>> /\ fnOut[1] # NilName /\ ~NamesHost(fnIn)) =>
        /\ fnOut[1].reg = "index.docker.io"
        /\ fnOut[1].repo = fnIn[1]

\* C30: for a string FromString accepts, rendering what it returned and
\* parsing that again returns the same reference.
C30_RenderedFormIsFixedPoint ==
    Len(fnOut) = 2 => (fnOut[2] = fnOut[1] /\ fnOut[1] = FromString(fnIn))

C30_Witness ==
    /\ Len(fnOut) = 2
    /\ ~NamesHost(fnIn)
    /\ CarriesDigest(fnIn)
    /\ isDigest(fnOut[2])
    /\ String(fnOut[2]) # fnIn

FetchErrors == {"errGetOriginal", "errGetOldBase", "errGetNewBase"}

\* The run ended right after request i.
EndedAt(i) == i = Len(reqs) /\ pc = "done"

\* C27: a manifest GET or config blob GET answered with another status than
\* 200, and a blob upload answered with another status than 201, is the
\* last request of the run, which fails with the error of that step; a 200
\* (201 for an upload) does not make that step fail; the manifest PUT makes
\* the run succeed on 200 and 201 and fail on any other status.
C27_OperationsSucceedOnListedStatuses ==
    \A i \in 1..Len(reqs) :
        /\ reqs[i].op \in {"getManifest", "getConfig"} =>
              IF reqs[i].status # StatusOK
              THEN EndedAt(i) /\ result \in FetchErrors
              ELSE result \notin FetchErrors \/ ~EndedAt(i)
        /\ (reqs[i].op = "getManifest" /\ reqs[i].status = StatusOK) =>
              (i < Len(reqs) /\ reqs[i + 1].op = "getConfig")
        /\ reqs[i].op \in {"putBlob", "putConfigBlob"} =>
              IF reqs[i].status # StatusCreated
              THEN EndedAt(i) /\ result \in {"errMirrorPut", "errPostConfigBlob"}
              ELSE result \notin {"errMirrorPut", "errPostConfigBlob"} \/ ~EndedAt(i)
        /\ reqs[i].op = "putManifest" =>
              /\ EndedAt(i)
              /\ (result = "ok") = (reqs[i].status \in {StatusOK, StatusCreated})
              /\ (result = "errPutManifest") = (reqs[i].status \notin {StatusOK, StatusCreated})

C27_Witness ==
    /\ result = "errGetNewBase"
    /\ reqs[Len(reqs)].op = "getConfig"
    /\ reqs[Len(reqs)].status = StatusCreated

\* C28 (as claimed): a layer blob GET answered outside 2xx is the last
\* request of the run, which fails on the download, and no upload carries
\* the body of a failed blob GET.
C28_FailedBlobGetAborts ==
    /\ \A i \in ReqsOf({"getBlob"}) :
          reqs[i].status \notin 200..299 => (EndedAt(i) /\ result = "errMirrorGet")
    /\ \A j \in ReqsOf({"putBlob"}) : reqs[j].payload = "layer"

\* Request i was answered in a way its operation takes for a failure: a GET
\* of a manifest or config without 200, a mount without 201 or 202, a blob
\* GET without any response (getBlob checks nothing else), an upload
\* without 201, a manifest PUT without 200 or 201.
FailedReq(i) ==
    LET q == reqs[i] IN
    \/ q.op \in {"getManifest", "getConfig"} /\ q.status # StatusOK
    \/ q.op = "mount" /\ q.status \notin {StatusCreated, StatusAccepted}
    \/ q.op = "getBlob" /\ q.status = TransportErr
    \/ q.op \in {"putBlob", "putConfigBlob"} /\ q.status # StatusCreated
    \/ q.op = "putManifest" /\ q.status \notin {StatusOK, StatusCreated}

\* The images fetched whole before request i.
FetchedBefore(i) ==
    Cardinality({j \in 1..(i - 1) : reqs[j].op = "getConfig" /\ reqs[j].status = StatusOK})

\* The error Rebase returns for the failure of request i.
ErrorOfReq(i) ==
    LET q == reqs[i] IN
    IF q.op \in {"getManifest", "getConfig"}
    THEN (IF FetchedBefore(i) = 0 THEN "errGetOriginal"
          ELSE IF FetchedBefore(i) = 1 THEN "errGetOldBase" ELSE "errGetNewBase")
    ELSE IF q.op = "mount"
    THEN (IF q.status = TransportErr THEN "errMount" ELSE "errMountHTTP")
    ELSE IF q.op = "getBlob" THEN "errMirrorGet"
    ELSE IF q.op = "putBlob" THEN "errMirrorPut"
    ELSE IF q.op = "putConfigBlob" THEN "errPostConfigBlob"
    ELSE "errPutManifest"

C31_CacheAccessExclusive ==
    \A g \in DOMAIN gor : ~Races(g)

\* Call i had to read the config file: no Authorization header on the
\* request and no cache entry for its host.
NeedsConfig(i) ==
    /\ tlog[i].req.auth = NoAuth
    /\ tlog[i].req.host \notin DOMAIN tlog[i].before

\* C32: with a config file that cannot be opened or decoded, a call that has
\* to read it returns the matching error and no response, has done nothing
\* but the read (no inner round trip, no helper, no token request) and leaves
\* the cache as it was.
C32_UnreadableConfigIsFatal ==
    \A i \in Calls :
        (store.state # "ok" /\ NeedsConfig(i)) =>
            /\ tlog[i].err = (IF store.state = "missing" THEN "errOpenConfig" ELSE "errDecodeConfig")
            /\ tlog[i].status = 0
            /\ tlog[i].events = <<ReadConfig>>
            /\ tlog[i].after = tlog[i].before

C32_Witness ==
    /\ store.state = "garbled"
    /\ Len(tlog) = MaxCalls
    /\ \A i \in Calls : NeedsConfig(i) /\ tlog[i].err = "errDecodeConfig"

\* The keys of m that name host in one of the seven forms.
KeysNaming(m, host) ==
    DOMAIN m \cap {<<host>>, <<"http://", host>>, <<"https://", host>>,
                   <<"http://", host, "/v1/">>, <<"https://", host, "/v1/">>,
                   <<"http://", host, "/v2/">>, <<"https://", host, "/v2/">>}

\* The credential sent with the last inner round trip of call i.
SentBasic(i) == Tail(LastEvent(i).req.auth)

\* C33: a call that reads a readable config file for host h runs a helper
\* of a credHelpers key naming h when there is one, and then no auths entry
\* is used; sends an auths credential of a key naming h when no credHelpers
\* key names h; and sends the request without credentials first only when
\* neither map names h. A credential it found is cached under h.
C33_CredentialSourceOrder ==
    \A i \in Calls :
        (store.state = "ok" /\ NeedsConfig(i)) =>
            LET h == tlog[i].req.host
                hk == KeysNaming(store.credHelpers, h)
                ak == KeysNaming(store.auths, h)
                ev == tlog[i].events IN
            /\ hk # {} =>
                  /\ Len(ev) >= 2 /\ ev[2].kind = "helper"
                  /\ \E k \in hk : ev[2].helper = store.credHelpers[k]
                  /\ EventsOf(i, "token") = {}
                  /\ \A n \in EventsOf(i, "inner") :
                        /\ n = 3 /\ ev[2].status = 0
                        /\ \E k \in hk : ev[n].req.auth = Basic(invokeHelper(store.credHelpers[k], ev[2].url))
                        /\ tlog[i].after = MapPut(tlog[i].before, h, Tail(ev[n].req.auth))
            /\ (hk = {} /\ ak # {}) =>
                  /\ Len(ev) = 2 /\ ev[2].kind = "inner"
                  /\ \E k \in ak : ev[2].req.auth = Basic(store.auths[k])
                  /\ tlog[i].after = MapPut(tlog[i].before, h, SentBasic(i))
            /\ (hk = {} /\ ak = {}) <=>
                  (Len(ev) >= 2 /\ ev[2] = Inner(tlog[i].req, ev[2].status))

C33_Witness ==
    \E i \in Calls :
        /\ store.state = "ok" /\ NeedsConfig(i)
        /\ <<"https://", tlog[i].req.host, "/v2/">> \in DOMAIN store.credHelpers
        /\ KeysNaming(store.auths, tlog[i].req.host) # {}
        /\ tlog[i].status = StatusOK
        /\ tlog[i].req.host \in DOMAIN tlog[i].after

\* C34 (as claimed): every helper a call runs is given "https://" followed
\* by the host of the call's request.
C34_HelperGivenRequestHost ==
    \A i \in Calls : \A k \in EventsOf(i, "helper") :
        tlog[i].events[k].url = <<"https://", tlog[i].req.host>>

\* C35 (as claimed): the image the go-containerregistry Rebase writes has
\* newBase's layers followed by original's layers above oldBase's, each with
\* its own history entry.
C35_StitchedLayersAreTopOfOriginal ==
    \A k \in 1..Len(fnOut) :
        fnOut[k].at = "written" =>
            /\ fnOut[k].Layers = fnIn.newBaseLayers
                                   \o SliceFrom(fnIn.origLayers, Len(fnIn.oldBaseLayers))
            /\ fnOut[k].History = fnIn.newHistory
                                    \o SliceFrom(fnIn.origHistory, Len(fnIn.oldBaseLayers))

\* C36: in a transport used for one call after the other, no call removes
\* or replaces a cache entry, each call starts from the cache the call
\* before it left, and a call without an Authorization header to a host
\* with an entry is one inner round trip carrying the entry as Basic
\* credential whose answer, a 401 too, is what the call returns: no config
\* read, no helper, no token request.
C36_CachedCredentialNeverInvalidated ==
    /\ \A i \in Calls :
          /\ \A h \in DOMAIN tlog[i].before :
                h \in DOMAIN tlog[i].after /\ tlog[i].after[h] = tlog[i].before[h]
          /\ i > 1 => tlog[i].before = tlog[i - 1].after
          /\ (tlog[i].req.auth = NoAuth /\ tlog[i].req.host \in DOMAIN tlog[i].before) =>
                /\ tlog[i].events =
                      <<Inner(SetAuthorization(tlog[i].req, Basic(tlog[i].before[tlog[i].req.host])),
                              tlog[i].status)>>
                /\ tlog[i].err = (IF tlog[i].status = TransportErr THEN "errInner" ELSE "")
    /\ Len(tlog) > 0 => cache = tlog[Len(tlog)].after

C36_Witness ==
    \E i \in Calls : \E j \in Calls :
        /\ i < j
        /\ tlog[i].req.host \notin DOMAIN tlog[i].before
        /\ tlog[i].req.host \in DOMAIN tlog[i].after
        /\ tlog[i].status = StatusUnauthorized
        /\ tlog[j].req = tlog[i].req
        /\ tlog[j].status = StatusUnauthorized
        /\ tlog[j].after = tlog[i].after

\* The layers of original above oldBase's, once the basis check has passed.
RetainedLayers ==
    {FetchedOrigLayers[k] : k \in (Len(OldLayers) + 1)..Len(FetchedOrigLayers)}

TransferOps == {"mount", "getBlob", "putBlob"}

\* C37: every mount, blob download and blob upload of a run is for a layer
\* of newBase, taken from newBase's repository and put into target's; no
\* such request names a layer kept from original or original's repository
\* as its source, wherever target lies; and the manifest a successful run
\* pushes lists the kept layers all the same.
C37_OnlyNewBaseLayersTransferred ==
    /\ \A i \in ReqsOf(TransferOps) :
          /\ \E k \in 1..Len(NewLayers) : reqs[i].layer = NewLayers[k]
          /\ reqs[i].layer \notin RetainedLayers
          /\ reqs[i].op = "mount" =>
                (reqs[i].from = newBase.repo /\ reqs[i].repo = rebased.repo)
          /\ reqs[i].op = "getBlob" =>
                (reqs[i].reg = newBase.reg /\ reqs[i].repo = newBase.repo)
          /\ reqs[i].op = "putBlob" =>
                (reqs[i].reg = rebased.reg /\ reqs[i].repo = rebased.repo)
    /\ result = "ok" =>
          \A l \in RetainedLayers :
              \E k \in 1..Len(reqs[Len(reqs)].manifest.layers) :
                  reqs[Len(reqs)].manifest.layers[k] = l

C37_Witness ==
    /\ result = "ok"
    /\ rebased.reg # orig.reg
    /\ RetainedLayers # {}
    /\ ReqsOf({"putBlob"}) # {}
    /\ reqs[Len(reqs)].reg = rebased.reg

\* C38 (as claimed): once the basis check has let a run through, oldBase
\* has no more history entries and no more diff_ids than original was
\* served with, and the run does not end in a fault of the three slices.
C38_SplicesWellDefined ==
    BasisPassed =>
        /\ Len(oldData.config.History) <= Len(FetchedOrigConfig.History)
        /\ Len(oldData.config.DiffIDs) <= Len(FetchedOrigConfig.DiffIDs)
        /\ (result = "panic" => toJSONFaults(origData.config))

\* s is unset or is no reference.
NoReference(s) == s \in {<<>>, <<"totally incomprehensible">>}

\* The run has fetched original and is past the check of the bases.
PastBases ==
    /\ Len(reqs) >= 2 /\ reqs[2].status = StatusOK
    /\ pc \notin {"start", "getOrig", "checkBases"}

\* C39: Rebase is handed nil for a base flag that is unset and for one that
\* is no reference alike. With neither flag a reference the run takes the
\* bases from the label of original (or fails on the label); with exactly
\* one a reference it issues nothing beyond the fetch of original and fails
\* with the both-or-neither error.
C39_UnparseableBaseIsOmittedBase ==
    /\ pc = "start" =>
          /\ NoReference(fnIn[1]) <=> oldBase = NilName
          /\ NoReference(fnIn[2]) <=> newBase = NilName
    /\ (NoReference(fnIn[1]) /\ NoReference(fnIn[2]) /\ PastBases) =>
          IF LabelRefused THEN result \in LabelErrors
          ELSE /\ <<String(oldBase), String(newBase)>> = reqs[2].body.config.labels.rebase
               /\ result \notin LabelErrors \cup {"errBothOrNeither"}
    /\ (NoReference(fnIn[1]) # NoReference(fnIn[2])) =>
          /\ Len(reqs) <= 2
          /\ result \in {"running", "errGetOriginal", "errBothOrNeither"}
          /\ PastBases => result = "errBothOrNeither"

C39_Witness ==
    /\ fnIn = <<<<"totally incomprehensible">>, <<"totally incomprehensible">>>>
    /\ ReqsOf({"getBlob"}) # {}
    /\ result = "ok"
    /\ oldBase = OldBaseName

\* C40 (as claimed): parseWwwAuthenticate returns on every header value
\* without slicing out of range.
C40_ParserNeverFaults ==
    \A k \in 1..Len(fnOut) : ~fnOut[k].fault

====
